---- MODULE Spec2Model ----
(***************************************************************************)
(* Membership manager: the payment due-date and status engine              *)
(* (utils/dateUtils.ts), the local data provider that persists members,    *)
(* payments and messages, and the reminder dispatch of the Payments page   *)
(* and the message form.                                                   *)
(*                                                                         *)
(* Time is counted in whole hours since 1970-01-01T00:00Z.  A JavaScript   *)
(* Date is such an hour count; a date string is a record                   *)
(* [y, m, d, h, z]: z = FALSE is the date-only form "YYYY-MM-DD", z = TRUE *)
(* the form "YYYY-MM-DDTHH:00:00.000Z" that Date.toISOString produces.     *)
(***************************************************************************)
EXTENDS Integers, Sequences, FiniteSets, TLC

VARIABLES
    tz,          \* offset of the browser's local time zone from UTC, in hours
    ret,         \* the record of the engine call in progress, or Idle
    dbMembers,   \* persisted 'members' collection (idb-keyval)
    dbPayments,  \* persisted 'payments' collection
    dbMessages,  \* persisted 'messages' collection
    nextId,      \* the number of ids uuidv4 has handed out, plus one
    members,     \* members store (in memory)
    payments,    \* payments store (in memory)
    messages,    \* messages store (in memory)
    settings,    \* settings store: the Settings object, or NullSettings
    view         \* what the page last rendered or selected

dbVars == <<dbMembers, dbPayments, dbMessages, nextId>>

storeVars == <<members, payments, messages, settings>>

vars == <<tz, ret, dbMembers, dbPayments, dbMessages, nextId, members, payments,
          messages, settings, view>>

-----------------------------------------------------------------------------
(* Bounds of the model *)

MaxPayments == 2
MaxMembers == 2
MaxWindow == 4
MaxStore == 2
MaxIds == 4
MaxMessages == 2
MaxClockDays == 9
MaxBatch == 2

-----------------------------------------------------------------------------
(* Calendar: the proleptic Gregorian calendar of JavaScript's Date *)

\* Day number (days since 1970-01-01) of the civil date y-m-d, m in 1..12.
DaysFromCivil(y, m, d) ==
    LET yy  == IF m <= 2 THEN y - 1 ELSE y
        era == yy \div 400
        yoe == yy - era * 400
        mp  == IF m > 2 THEN m - 3 ELSE m + 9
        doy == (153 * mp + 2) \div 5 + d - 1
        doe == yoe * 365 + yoe \div 4 - yoe \div 100 + doy
    IN  era * 146097 + doe - 719468

\* The civil date of a day number.
CivilFromDayNumber(z) ==
    LET zz  == z + 719468
        era == zz \div 146097
        doe == zz - era * 146097
        yoe == (doe - doe \div 1460 + doe \div 36524 - doe \div 146096) \div 365
        doy == doe - (365 * yoe + yoe \div 4 - yoe \div 100)
        mp  == (5 * doy + 2) \div 153
        d   == doy - (153 * mp + 2) \div 5 + 1
        m   == IF mp < 10 THEN mp + 3 ELSE mp - 9
    IN  [y |-> yoe + era * 400 + (IF m <= 2 THEN 1 ELSE 0), m |-> m, d |-> d]

\* The calendar of the years 2022 to 2026, which hold every date of the model.
Calendar ==
    [z \in DaysFromCivil(2022, 1, 1)..DaysFromCivil(2026, 12, 31) |-> CivilFromDayNumber(z)]

CivilFromDays(z) == Calendar[z]

\* The one element of a singleton set.  Only({ e(x) : x \in {v} }) is e(v) with
\* v evaluated once, as a JavaScript const is.
Only(S) == CHOOSE x \in S : TRUE

\* new Date(year, monthIndex, day, hours) in the local zone: monthIndex is
\* 0-based and may overflow into the next years, day 0 is the last day of the
\* month before.
MakeDate(year, monthIndex, day, hours) ==
    (DaysFromCivil(year + monthIndex \div 12, (monthIndex % 12) + 1, 1) + day - 1) * 24
        + hours - tz

\* The local calendar fields of a Date: getFullYear, getMonth (0-based),
\* getDate, getHours.
LocalFields(t) ==
    Only({ [year |-> c.y, month |-> c.m - 1, date |-> c.d, hours |-> lt % 24] :
             lt \in {t + tz}, c \in {CivilFromDays((t + tz) \div 24)} })

\* The value `undefined` where a date string is expected.
undefined == [y |-> 0, m |-> 0, d |-> 0, h |-> 0, z |-> FALSE]

\* A date string that no parser accepts, such as "2024-13-45".
Malformed == [y |-> 2024, m |-> 13, d |-> 45, h |-> 0, z |-> FALSE]

\* The time value of an Invalid Date, and the number NaN: a value apart from
\* every time value and every day count of the model.
NaN == -1000000000

\* The JavaScript comparisons a < b and a <= b of numbers: false when either
\* side is NaN.
LessThan(a, b) == a # NaN /\ b # NaN /\ a < b

LessOrEqual(a, b) == a # NaN /\ b # NaN /\ a <= b

\* date-fns parseISO: a string with Z is that UTC instant, a date-only string
\* is midnight of that day in the local zone.
parseISO(argument) ==
    Only({ IF s = Malformed THEN NaN
           ELSE IF s.z THEN DaysFromCivil(s.y, s.m, s.d) * 24 + s.h
           ELSE DaysFromCivil(s.y, s.m, s.d) * 24 - tz : s \in {argument} })

\* new Date(string).getTime(): a string with Z is that UTC instant, a
\* date-only string is midnight of that day in UTC.
NewDate(s) == IF s = Malformed THEN NaN ELSE DaysFromCivil(s.y, s.m, s.d) * 24 + s.h

\* date-fns addMonths: the same day of the month `amount` months later, or the
\* last day of that month when it has no such day; the time of day is kept.
\* f is the date's fields, e those of endOfDesiredMonth, whose day of the
\* month is daysInMonth.
addMonths(date, amount) ==
    IF date = NaN THEN NaN ELSE
    Only({ Only({ IF f.date >= e.date
                  THEN MakeDate(e.year, e.month, e.date, f.hours)
                  ELSE MakeDate(e.year, e.month, f.date, f.hours) :
                    e \in {LocalFields(MakeDate(f.year, f.month + amount + 1, 0, f.hours))} }) :
             f \in {LocalFields(date)} })

\* date-fns addYears(date, n) is addMonths(date, 12 n).
addYears(date, amount) == addMonths(date, amount * 12)

\* compareLocalAsc of date-fns' differenceInDays.
CompareAsc(a, b) == IF a < b THEN -1 ELSE IF a > b THEN 1 ELSE 0

Abs(n) == IF n < 0 THEN -n ELSE n

\* date-fns differenceInDays(dateLeft, dateRight): the number of full days
\* between the two dates, computed from the calendar-day difference less the
\* last day when it is not full.
differenceInDays(dateLeft, dateRight) ==
    IF dateLeft = NaN \/ dateRight = NaN THEN NaN ELSE
    Only({ LET sign       == CompareAsc(l, r)
               difference == Abs((l + tz) \div 24 - (r + tz) \div 24)
               moved      == l - sign * difference * 24
               isLastDayNotFull == IF CompareAsc(moved, r) = -sign THEN 1 ELSE 0
           IN  sign * (difference - isLastDayNotFull) :
             l \in {dateLeft}, r \in {dateRight} })

isAfter(date, dateToCompare) == LessThan(dateToCompare, date)

isBefore(date, dateToCompare) == LessThan(date, dateToCompare)

-----------------------------------------------------------------------------
(* The engine: utils/dateUtils.ts *)

\* getNextDueDate as it would be if it always anchored on the start date.
getNextDueDateFromStart(member, lastPaymentDate) ==
    Only({ CASE member.payment_frequency = "monthly"      -> addMonths(startDate, 1)
             [] member.payment_frequency = "three_months" -> addMonths(startDate, 3)
             [] member.payment_frequency = "six_months"   -> addMonths(startDate, 6)
             [] member.payment_frequency = "yearly"       -> addYears(startDate, 1)
             [] OTHER                                     -> addMonths(startDate, 1) :
             startDate \in { parseISO(member.payment_start_date) } })

\* getNextDueDate as it would be if a year were added with setFullYear, which
\* lets 29 February spill over into 1 March.
getNextDueDateYearSpills(member, lastPaymentDate) ==
    Only({ CASE member.payment_frequency = "monthly"      -> addMonths(startDate, 1)
             [] member.payment_frequency = "three_months" -> addMonths(startDate, 3)
             [] member.payment_frequency = "six_months"   -> addMonths(startDate, 6)
             [] member.payment_frequency = "yearly"       ->
                  Only({ MakeDate(f.year + 1, f.month, f.date, f.hours) :
                           f \in {LocalFields(startDate)} })
             [] OTHER                                     -> addMonths(startDate, 1) :
             startDate \in { IF lastPaymentDate # undefined
                             THEN parseISO(lastPaymentDate)
                             ELSE parseISO(member.payment_start_date) } })

\* getNextDueDate as it would be if months were added with setMonth, which
\* lets a day the target month lacks spill over into the month after.
getNextDueDateMonthSpills(member, lastPaymentDate) ==
    Only({ Only({ CASE member.payment_frequency = "monthly"      ->
                         MakeDate(f.year, f.month + 1, f.date, f.hours)
                    [] member.payment_frequency = "three_months" ->
                         MakeDate(f.year, f.month + 3, f.date, f.hours)
                    [] member.payment_frequency = "six_months"   ->
                         MakeDate(f.year, f.month + 6, f.date, f.hours)
                    [] member.payment_frequency = "yearly"       -> addYears(startDate, 1)
                    [] OTHER                                     ->
                         MakeDate(f.year, f.month + 1, f.date, f.hours) :
                    f \in {LocalFields(startDate)} }) :
             startDate \in { IF lastPaymentDate # undefined
                             THEN parseISO(lastPaymentDate)
                             ELSE parseISO(member.payment_start_date) } })

getNextDueDate(member, lastPaymentDate) ==
    Only({ CASE member.payment_frequency = "monthly"      -> addMonths(startDate, 1)
             [] member.payment_frequency = "three_months" -> addMonths(startDate, 3)
             [] member.payment_frequency = "six_months"   -> addMonths(startDate, 6)
             [] member.payment_frequency = "yearly"       -> addYears(startDate, 1)
             [] OTHER                                     -> addMonths(startDate, 1) :
             startDate \in { IF lastPaymentDate # undefined
                             THEN parseISO(lastPaymentDate)
                             ELSE parseISO(member.payment_start_date) } })

IsPaid(p) == p.status = "paid"

\* Array.prototype.sort with the comparator
\* (a, b) => new Date(b.payment_date) - new Date(a.payment_date): a stable
\* sort, latest first.  InsertByDate puts p behind every element that does not
\* sort after it.  A comparator result of NaN (an Invalid Date on either side)
\* counts as 0, so an unparseable date ties with every other date.
RECURSIVE InsertByDate(_, _)
InsertByDate(sorted, p) ==
    IF sorted = <<>> THEN <<p>>
    ELSE IF LessThan(NewDate(Head(sorted).payment_date), NewDate(p.payment_date))
         THEN <<p>> \o sorted
         ELSE <<Head(sorted)>> \o InsertByDate(Tail(sorted), p)

RECURSIVE SortByDateDesc(_)
SortByDateDesc(ps) ==
    IF ps = <<>> THEN <<>>
    ELSE InsertByDate(SortByDateDesc(SubSeq(ps, 1, Len(ps) - 1)), ps[Len(ps)])

getLastPaymentDate(ps) ==
    IF Len(ps) = 0 THEN undefined
    ELSE Only({ IF Len(sortedPayments) = 0 THEN undefined
                ELSE sortedPayments[1].payment_date :
                  sortedPayments \in {SortByDateDesc(SelectSeq(ps, IsPaid))} })

\* getPaymentStatus as it would be with daysDiff < reminderDays.
getPaymentStatusStrict(member, ps, reminderDays, today) ==
    Only({ IF LessThan(daysDiff, 0) THEN "overdue"
           ELSE IF LessThan(daysDiff, reminderDays) THEN "due_soon"
           ELSE "current" :
             daysDiff \in { Only({ differenceInDays(getNextDueDate(member, lastPayment), today) :
                                     lastPayment \in {getLastPaymentDate(ps)} }) } })

\* getPaymentStatus as it would be with the arguments of differenceInDays
\* exchanged.
getPaymentStatusFromDueToToday(member, ps, reminderDays, today) ==
    Only({ IF LessThan(daysDiff, 0) THEN "overdue"
           ELSE IF LessOrEqual(daysDiff, reminderDays) THEN "due_soon"
           ELSE "current" :
             daysDiff \in { Only({ differenceInDays(today, getNextDueDate(member, lastPayment)) :
                                     lastPayment \in {getLastPaymentDate(ps)} }) } })

\* `today` is the value of new Date() read by the call.
getPaymentStatus(member, ps, reminderDays, today) ==
    Only({ IF LessThan(daysDiff, 0) THEN "overdue"
           ELSE IF LessOrEqual(daysDiff, reminderDays) THEN "due_soon"
           ELSE "current" :
             daysDiff \in { Only({ differenceInDays(getNextDueDate(member, lastPayment), today) :
                                     lastPayment \in {getLastPaymentDate(ps)} }) } })

isDue(member, ps, reminderDays, today) ==
    Only({ status = "due_soon" \/ status = "overdue" :
             status \in {getPaymentStatus(member, ps, reminderDays, today)} })

\* The reducer of getMonthlyExpectedIncome.  Amounts are counted in twelfths
\* of a currency unit, so that amount/3, amount/6 and amount/12 stay exact.
ExpectedReducer(total, member) ==
    CASE member.payment_frequency = "monthly"      -> total + 12 * member.payment_amount
      [] member.payment_frequency = "three_months" -> total + 4 * member.payment_amount
      [] member.payment_frequency = "six_months"   -> total + 2 * member.payment_amount
      [] member.payment_frequency = "yearly"       -> total + member.payment_amount
      [] OTHER                                     -> total

IsActive(m) == m.active

\* Array.prototype.reduce from the left, with the reducer of
\* getMonthlyExpectedIncome.
RECURSIVE ReduceExpected(_, _)
ReduceExpected(seq, initial) ==
    IF seq = <<>> THEN initial
    ELSE ReduceExpected(Tail(seq), ExpectedReducer(initial, Head(seq)))

\* getMonthlyExpectedIncome as it would be without the filter on active.
getMonthlyExpectedIncomeOfAll(ms) == ReduceExpected(ms, 0)

\* The result is in twelfths of a currency unit.
getMonthlyExpectedIncome(ms) == ReduceExpected(SelectSeq(ms, IsActive), 0)

CollectedReducer(total, payment) == total + payment.amount

\* Array.prototype.reduce from the left, with the reducer of
\* getMonthlyCollected.
RECURSIVE ReduceCollected(_, _)
ReduceCollected(seq, initial) ==
    IF seq = <<>> THEN initial
    ELSE ReduceCollected(Tail(seq), CollectedReducer(initial, Head(seq)))

\* getMonthlyCollected as it would be without the test of the status.
getMonthlyCollectedAnyStatus(ps, month, today) ==
    Only({ Only({ LET InMonth(p) ==
                          Only({ /\ isAfter(paymentDate, startOfMonth)
                                 /\ isBefore(paymentDate, endOfMonth) :
                                   paymentDate \in {parseISO(p.payment_date)} })
                  IN  ReduceCollected(SelectSeq(ps, InMonth), 0) :
                    startOfMonth \in {MakeDate(f.year, f.month, 1, 0)},
                    endOfMonth   \in {MakeDate(f.year, f.month + 1, 0, 0)} }) :
             f \in {LocalFields(IF month # <<>> THEN month[1] ELSE today)} })

\* `month` is <<>> when the argument is omitted and <<date>> otherwise.
\* targetMonth has the fields f.
getMonthlyCollected(ps, month, today) ==
    Only({ Only({ LET InMonth(p) ==
                          Only({ /\ p.status = "paid"
                                 /\ isAfter(paymentDate, startOfMonth)
                                 /\ isBefore(paymentDate, endOfMonth) :
                                   paymentDate \in {parseISO(p.payment_date)} })
                  IN  ReduceCollected(SelectSeq(ps, InMonth), 0) :
                    startOfMonth \in {MakeDate(f.year, f.month, 1, 0)},
                    endOfMonth   \in {MakeDate(f.year, f.month + 1, 0, 0)} }) :
             f \in {LocalFields(IF month # <<>> THEN month[1] ELSE today)} })

\* What a call leaves in the array it was given.  filter returns a new array
\* and leaves its receiver alone; the sort of getLastPaymentDate then reorders
\* that new array, never the argument.
ArrayAfterFilter(array) == array

\* The argument as it would be left if getLastPaymentDate sorted it in place.
PaymentsSortedInPlace(ps) == SortByDateDesc(ps)

\* getLastPaymentDate sorts the array that filter returned: the argument keeps
\* its elements and their order.
PaymentsAfterLastPaymentDate(ps) == ArrayAfterFilter(ps)

-----------------------------------------------------------------------------
(* Inputs of the engine calls *)

\* "YYYY-MM-DD"
DateOnly(y, m, d) == [y |-> y, m |-> m, d |-> d, h |-> 0, z |-> FALSE]

\* "YYYY-MM-DDTHH:00:00.000Z"
IsoZ(y, m, d, h) == [y |-> y, m |-> m, d |-> d, h |-> h, z |-> TRUE]

\* UTC and UTC+3 (Africa/Addis_Ababa); neither has daylight saving time.
TimeZones == {0, 3}

\* 'weekly' stands for a frequency outside the four of the Member type; the
\* CSV import casts whatever the file holds.
Frequencies == {"monthly", "three_months", "six_months", "yearly", "weekly"}

Statuses == {"paid", "unpaid", "overdue"}

StartDates ==
    { DateOnly(2023, 2, 28), DateOnly(2023, 8, 31), DateOnly(2023, 11, 30),
      DateOnly(2024, 1, 31), DateOnly(2024, 2, 29) }

\* The payment form stores date-only strings, seedData stores toISOString().
PayDates ==
    { DateOnly(2024, 1, 31), IsoZ(2024, 1, 31, 0), IsoZ(2024, 1, 30, 22),
      DateOnly(2023, 11, 30) }

Member(id, frequency, start, amount, active) ==
    [id |-> id, payment_frequency |-> frequency, payment_start_date |-> start,
     payment_amount |-> amount, active |-> active]

Payment(id, memberId, amount, date, status) ==
    [id |-> id, member_id |-> memberId, amount |-> amount, payment_date |-> date,
     status |-> status]

\* Sequences of at most n elements of S.
SeqsUpTo(S, n) == UNION { [1..k -> S] : k \in 0..n }

DueMembers == { Member(1, f, s, 600, TRUE) : f \in Frequencies, s \in StartDates }

DuePayments == { Payment(1, 1, 100, d, st) : d \in PayDates, st \in Statuses }

\* The members whose next due date falls among Todays, and one whose due date
\* is a year away.
StatusMembers ==
    { Member(1, "monthly", DateOnly(2024, 1, 31), 600, TRUE),
      Member(1, "three_months", DateOnly(2023, 11, 30), 600, TRUE),
      Member(1, "six_months", DateOnly(2023, 8, 31), 600, TRUE),
      Member(1, "yearly", DateOnly(2023, 2, 28), 600, TRUE),
      Member(1, "weekly", DateOnly(2024, 1, 31), 600, TRUE),
      Member(1, "yearly", DateOnly(2024, 2, 29), 600, FALSE) }

\* No payment, one, or two: a paid date-only payment, a paid toISOString
\* payment and an unpaid one that is the latest of the three.
StatusPayments ==
    SeqsUpTo({ Payment(1, 1, 100, DateOnly(2024, 1, 31), "paid"),
               Payment(1, 1, 100, IsoZ(2024, 1, 30, 22), "paid"),
               Payment(1, 1, 100, IsoZ(2024, 2, 20, 0), "unpaid") }, 2)

\* The clock values a call may read: every 12 hours from 2024-02-23T00:00Z
\* to 2024-03-02T00:00Z.
Todays == { DaysFromCivil(2024, 2, 23) * 24 + 12 * k : k \in 0..16 }

IncomeMembers ==
    { Member(1, f, DateOnly(2024, 1, 31), a, act) :
        f \in Frequencies, a \in {600, 1200}, act \in BOOLEAN }

\* Around the ends of February 2024: the last day of January, midnight and
\* morning of the first day, mid-month, midnight and noon of the last day,
\* and the first day of March.
CollectedDates ==
    { IsoZ(2024, 1, 31, 12), DateOnly(2024, 2, 1), IsoZ(2024, 2, 15, 12),
      DateOnly(2024, 2, 29), IsoZ(2024, 2, 29, 12), IsoZ(2024, 3, 1, 12) }

CollectedPayments ==
    { Payment(1, 1, a, d, "paid") : a \in {100, 250}, d \in CollectedDates }
        \cup { Payment(1, 1, 100, IsoZ(2024, 2, 15, 12), st) : st \in {"unpaid", "overdue"} }

\* The month argument: omitted, or a Date in February or in January 2024.
Months == { <<>>, <<DaysFromCivil(2024, 2, 10) * 24>>, <<DaysFromCivil(2024, 1, 20) * 24>> }

CollectedTodays == { DaysFromCivil(2024, 2, 23) * 24, DaysFromCivil(2024, 3, 2) * 24 }

Idle == [op |-> "idle"]

\* The settings store before fetchSettings has completed.
NullSettings == [null |-> TRUE]

\* Nothing rendered yet.
NoView == [screen |-> "none"]

-----------------------------------------------------------------------------
(* The engine calls.  A call reads its inputs, and the clock where the code  *)
(* calls new Date(), and leaves a record of its arguments as they were       *)
(* before and as they are after the call, with the value it returned.        *)

CallGetNextDueDate ==
    /\ ret = Idle
    /\ \E member \in DueMembers, lastPaymentDate \in PayDates \cup {undefined} :
         ret' = [op |-> "getNextDueDate", member |-> member,
                 lastPaymentDate |-> lastPaymentDate, memberAfter |-> member,
                 value |-> getNextDueDate(member, lastPaymentDate)]
    /\ UNCHANGED <<tz, dbVars, storeVars, view>>

CallGetLastPaymentDate ==
    /\ ret = Idle
    /\ \E ps \in SeqsUpTo(DuePayments, MaxPayments) :
         ret' = [op |-> "getLastPaymentDate", payments |-> ps,
                 paymentsAfter |-> PaymentsAfterLastPaymentDate(ps),
                 value |-> getLastPaymentDate(ps)]
    /\ UNCHANGED <<tz, dbVars, storeVars, view>>

CallGetPaymentStatus ==
    /\ ret = Idle
    /\ \E member \in StatusMembers, ps \in StatusPayments,
          reminderDays \in 0..MaxWindow, today \in Todays :
         ret' = [op |-> "getPaymentStatus", member |-> member, payments |-> ps,
                 reminderDays |-> reminderDays, today |-> today,
                 memberAfter |-> member,
                 paymentsAfter |-> PaymentsAfterLastPaymentDate(ps),
                 value |-> getPaymentStatus(member, ps, reminderDays, today)]
    /\ UNCHANGED <<tz, dbVars, storeVars, view>>

CallIsDue ==
    /\ ret = Idle
    /\ \E member \in StatusMembers, ps \in StatusPayments,
          reminderDays \in 0..MaxWindow, today \in Todays :
         ret' = [op |-> "isDue", member |-> member, payments |-> ps,
                 reminderDays |-> reminderDays, today |-> today,
                 memberAfter |-> member,
                 paymentsAfter |-> PaymentsAfterLastPaymentDate(ps),
                 value |-> isDue(member, ps, reminderDays, today)]
    /\ UNCHANGED <<tz, dbVars, storeVars, view>>

CallGetMonthlyExpectedIncome ==
    /\ ret = Idle
    /\ \E ms \in SeqsUpTo(IncomeMembers, MaxMembers) :
         ret' = [op |-> "getMonthlyExpectedIncome", members |-> ms,
                 membersAfter |-> ArrayAfterFilter(ms),
                 value |-> getMonthlyExpectedIncome(ms)]
    /\ UNCHANGED <<tz, dbVars, storeVars, view>>

\* new Date() is read only when the month argument is omitted.
CallGetMonthlyCollected ==
    /\ ret = Idle
    /\ \E ps \in SeqsUpTo(CollectedPayments, MaxPayments), month \in Months,
          today \in CollectedTodays :
         /\ month # <<>> => today = DaysFromCivil(2024, 2, 23) * 24
         /\ ret' = [op |-> "getMonthlyCollected", payments |-> ps, month |-> month,
                    today |-> today, paymentsAfter |-> ArrayAfterFilter(ps),
                    value |-> getMonthlyCollected(ps, month, today)]
    /\ UNCHANGED <<tz, dbVars, storeVars, view>>

\* The caller takes the value.
Return ==
    /\ ret # Idle
    /\ ret' = Idle
    /\ UNCHANGED <<tz, dbVars, storeVars, view>>

InitEngine ==
    /\ tz \in TimeZones
    /\ ret = Idle
    /\ dbMembers = <<>>
    /\ dbPayments = <<>>
    /\ dbMessages = <<>>
    /\ nextId = 1
    /\ members = <<>>
    /\ payments = <<>>
    /\ messages = <<>>
    /\ settings = NullSettings
    /\ view = NoView

NextEngine ==
    \/ CallGetNextDueDate
    \/ CallGetLastPaymentDate
    \/ CallGetPaymentStatus
    \/ CallIsDue
    \/ CallGetMonthlyExpectedIncome
    \/ CallGetMonthlyCollected
    \/ Return

SpecEngine == InitEngine /\ [][NextEngine]_vars

-----------------------------------------------------------------------------
(* The engine calls on records that hold an unparseable date *)

\* Members whose start date is unparseable, and one whose start date is fine.
MalformedMembers ==
    { Member(1, f, Malformed, 600, TRUE) : f \in Frequencies }
        \cup { Member(1, "monthly", DateOnly(2024, 1, 31), 600, TRUE) }

\* At most two payments: the comparator of the sort is consistent on two
\* elements, whatever it returns.
MalformedPayments ==
    SeqsUpTo({ Payment(1, 1, 100, Malformed, "paid"),
               Payment(1, 1, 250, DateOnly(2024, 2, 15), "paid"),
               Payment(1, 1, 100, Malformed, "unpaid") }, 2)

\* The date string getPaymentStatus hands to parseISO by way of
\* getNextDueDate.
DateRead(member, ps) ==
    Only({ IF lastPayment # undefined THEN lastPayment ELSE member.payment_start_date :
             lastPayment \in {getLastPaymentDate(ps)} })

HasMalformedPaid(ps) ==
    \E i \in DOMAIN ps : ps[i].status = "paid" /\ ps[i].payment_date = Malformed

CallGetNextDueDateMalformed ==
    /\ ret = Idle
    /\ \E member \in MalformedMembers, lastPaymentDate \in {undefined, Malformed} :
         /\ (IF lastPaymentDate # undefined THEN lastPaymentDate
             ELSE member.payment_start_date) = Malformed
         /\ ret' = [op |-> "getNextDueDate", member |-> member,
                    lastPaymentDate |-> lastPaymentDate, memberAfter |-> member,
                    value |-> getNextDueDate(member, lastPaymentDate)]
    /\ UNCHANGED <<tz, dbVars, storeVars, view>>

CallGetPaymentStatusMalformed ==
    /\ ret = Idle
    /\ \E member \in MalformedMembers, ps \in MalformedPayments,
          reminderDays \in 0..MaxWindow, today \in CollectedTodays :
         /\ DateRead(member, ps) = Malformed
         /\ ret' = [op |-> "getPaymentStatus", member |-> member, payments |-> ps,
                    reminderDays |-> reminderDays, today |-> today,
                    memberAfter |-> member,
                    paymentsAfter |-> PaymentsAfterLastPaymentDate(ps),
                    value |-> getPaymentStatus(member, ps, reminderDays, today)]
    /\ UNCHANGED <<tz, dbVars, storeVars, view>>

CallIsDueMalformed ==
    /\ ret = Idle
    /\ \E member \in MalformedMembers, ps \in MalformedPayments,
          reminderDays \in 0..MaxWindow, today \in CollectedTodays :
         /\ DateRead(member, ps) = Malformed
         /\ ret' = [op |-> "isDue", member |-> member, payments |-> ps,
                    reminderDays |-> reminderDays, today |-> today,
                    memberAfter |-> member,
                    paymentsAfter |-> PaymentsAfterLastPaymentDate(ps),
                    value |-> isDue(member, ps, reminderDays, today)]
    /\ UNCHANGED <<tz, dbVars, storeVars, view>>

CallGetMonthlyCollectedMalformed ==
    /\ ret = Idle
    /\ \E ps \in MalformedPayments, month \in Months, today \in CollectedTodays :
         /\ HasMalformedPaid(ps)
         /\ month # <<>> => today = DaysFromCivil(2024, 2, 23) * 24
         /\ ret' = [op |-> "getMonthlyCollected", payments |-> ps, month |-> month,
                    today |-> today, paymentsAfter |-> ArrayAfterFilter(ps),
                    value |-> getMonthlyCollected(ps, month, today)]
    /\ UNCHANGED <<tz, dbVars, storeVars, view>>

NextMalformed ==
    \/ CallGetNextDueDateMalformed
    \/ CallGetPaymentStatusMalformed
    \/ CallIsDueMalformed
    \/ CallGetMonthlyCollectedMalformed
    \/ Return

SpecMalformed == InitEngine /\ [][NextMalformed]_vars

\* C12: when a date the call reads is unparseable, an engine operation never
\* returns an ordinary result computed from it: no status, no truth value of
\* isDue, no valid due date and no aggregate.
C12_MalformedDateIsSignalled ==
    /\ ret.op = "getNextDueDate" => ret.value = NaN
    /\ ret.op = "getPaymentStatus" => ret.value \notin {"current", "due_soon", "overdue"}
    /\ ret.op = "isDue" => ret.value \notin BOOLEAN
    /\ ret.op = "getMonthlyCollected" => ret.value = NaN

-----------------------------------------------------------------------------
(* getPaymentStatus called again and again in one process, on the same       *)
(* member, payments and reminder window, while the clock advances.           *)

\* The first value of the clock, 2024-02-23T00:00Z, and its last.
ClockStart == DaysFromCivil(2024, 2, 23) * 24

ClockEnd == ClockStart + MaxClockDays * 24

\* The members and payment lists whose next due date lies at least two days
\* before the end of the clock.
ClockCases ==
    { c \in StatusMembers \X StatusPayments :
        getNextDueDate(c[1], getLastPaymentDate(c[2])) + 48 <= ClockEnd }

StatusCall(member, ps, reminderDays, today, previous) ==
    [op |-> "getPaymentStatus", member |-> member, payments |-> ps,
     reminderDays |-> reminderDays, today |-> today,
     memberAfter |-> member,
     paymentsAfter |-> PaymentsAfterLastPaymentDate(ps),
     value |-> getPaymentStatus(member, ps, reminderDays, today),
     previous |-> previous]

\* The next call, 3 or 24 hours after the one before; `previous` is what the
\* call before returned.
CallGetPaymentStatusLater ==
    /\ ret.op = "getPaymentStatus"
    /\ \E hours \in {3, 24} :
         /\ ret.today + hours <= ClockEnd
         /\ ret' = StatusCall(ret.memberAfter, ret.paymentsAfter, ret.reminderDays,
                              ret.today + hours, ret.value)
    /\ UNCHANGED <<tz, dbVars, storeVars, view>>

\* The first call.
InitClock ==
    /\ tz \in TimeZones
    /\ \E c \in ClockCases, reminderDays \in 0..MaxWindow :
         ret = StatusCall(c[1], c[2], reminderDays, ClockStart, "none")
    /\ dbMembers = <<>>
    /\ dbPayments = <<>>
    /\ dbMessages = <<>>
    /\ nextId = 1
    /\ members = <<>>
    /\ payments = <<>>
    /\ messages = <<>>
    /\ settings = NullSettings
    /\ view = NoView

NextClock == CallGetPaymentStatusLater

\* The clock does not stop.
SpecClock == InitClock /\ [][NextClock]_vars /\ WF_vars(CallGetPaymentStatusLater)

-----------------------------------------------------------------------------
(* The local data provider.  Each operation reads a collection, changes the  *)
(* copy and writes it back; here every call runs to completion before the    *)
(* next one starts.                                                          *)

\* { ...record, ...updates }
Merge(record, updates) ==
    [k \in DOMAIN record \cup DOMAIN updates |->
        IF k \in DOMAIN updates THEN updates[k] ELSE record[k]]

\* array.findIndex(x => x.id === id), 0 for -1.
FindIndex(array, id) ==
    IF \E i \in DOMAIN array : array[i].id = id
    THEN CHOOSE i \in DOMAIN array :
            array[i].id = id /\ \A j \in DOMAIN array : array[j].id = id => i <= j
    ELSE 0

\* member_id of a bulk message, which has none.
NoMember == 0

Message(id, memberId, type, sentAt) ==
    [id |-> id, member_id |-> memberId, message_type |-> type, sent_at |-> sentAt]

Ids == 1..MaxIds

\* The data of the member form and of the CSV import, less the fields no
\* operation of the model reads.
MemberData ==
    { [payment_frequency |-> "monthly", payment_start_date |-> DateOnly(2024, 1, 31),
       payment_amount |-> 600, active |-> act] : act \in BOOLEAN }

PaymentData ==
    { [member_id |-> mid, amount |-> 100, payment_date |-> DateOnly(2024, 1, 31),
       status |-> st] : mid \in Ids, st \in {"paid", "unpaid"} }

\* Backup files: one that holds only an empty members array, a consistent one
\* with a member and its payment, and one that holds only a payment.
ImportFiles ==
    { [members |-> <<>>],
      [members  |-> <<Member(9, "monthly", DateOnly(2024, 1, 31), 600, TRUE)>>,
       payments |-> <<Payment(8, 9, 100, DateOnly(2024, 1, 31), "paid")>>,
       messages |-> <<>>],
      [payments |-> <<Payment(7, 9, 100, DateOnly(2024, 1, 31), "unpaid")>>] }

ProviderCreateMember ==
    /\ Len(dbMembers) < MaxStore /\ nextId <= MaxIds
    /\ \E memberData \in MemberData :
         dbMembers' = Append(dbMembers, Merge(memberData, [id |-> nextId]))
    /\ nextId' = nextId + 1
    /\ UNCHANGED <<tz, ret, dbPayments, dbMessages, storeVars, view>>

\* An unknown id throws 'Member not found' and writes nothing.
ProviderUpdateMember ==
    /\ \E id \in Ids, updates \in { [active |-> act] : act \in BOOLEAN } :
         LET index == FindIndex(dbMembers, id)
         IN  /\ index # 0
             /\ dbMembers' = [dbMembers EXCEPT ![index] = Merge(dbMembers[index], updates)]
    /\ UNCHANGED <<tz, ret, dbPayments, dbMessages, nextId, storeVars, view>>

\* The filter of the related records as it would be if it kept only records
\* that name another member.
NamesAnotherMember(x, id) == x.member_id # NoMember /\ x.member_id # id

\* p => p.member_id !== id
NotOfMember(x, id) == x.member_id # id

\* deleteMember(id): the member goes, and with them their payments and
\* messages.
DeleteMemberWithId(id) ==
    LET KeepMember(m)  == m.id # id
        KeepRelated(x) == NotOfMember(x, id)
    IN  /\ dbMembers' = SelectSeq(dbMembers, KeepMember)
        /\ dbPayments' = SelectSeq(dbPayments, KeepRelated)
        /\ dbMessages' = SelectSeq(dbMessages, KeepRelated)

ProviderDeleteMember ==
    /\ \E id \in Ids : DeleteMemberWithId(id)
    /\ UNCHANGED <<tz, ret, nextId, storeVars, view>>

ProviderCreatePayment ==
    /\ Len(dbPayments) < MaxStore /\ nextId <= MaxIds
    /\ \E paymentData \in PaymentData :
         dbPayments' = Append(dbPayments, Merge(paymentData, [id |-> nextId]))
    /\ nextId' = nextId + 1
    /\ UNCHANGED <<tz, ret, dbMembers, dbMessages, storeVars, view>>

\* An unknown id throws 'Payment not found' and writes nothing.
ProviderUpdatePayment ==
    /\ \E id \in Ids,
          updates \in { [status |-> st] : st \in {"paid", "unpaid"} }
                        \cup { [member_id |-> mid] : mid \in Ids } :
         LET index == FindIndex(dbPayments, id)
         IN  /\ index # 0
             /\ dbPayments' = [dbPayments EXCEPT ![index] = Merge(dbPayments[index], updates)]
    /\ UNCHANGED <<tz, ret, dbMembers, dbMessages, nextId, storeVars, view>>

ProviderDeletePayment ==
    /\ \E id \in Ids :
         LET Keep(p) == p.id # id
         IN  dbPayments' = SelectSeq(dbPayments, Keep)
    /\ UNCHANGED <<tz, ret, dbMembers, dbMessages, nextId, storeVars, view>>

ProviderCreateMessage ==
    /\ Len(dbMessages) < MaxMessages /\ nextId <= MaxIds
    /\ \E memberId \in Ids \cup {NoMember} :
         dbMessages' = Append(dbMessages, Message(nextId, memberId, "announcement", IsoZ(2024, 2, 23, 0)))
    /\ nextId' = nextId + 1
    /\ UNCHANGED <<tz, ret, dbMembers, dbPayments, storeVars, view>>

\* Each collection the file holds replaces the persisted one.
ProviderImportData ==
    /\ \E data \in ImportFiles :
         /\ dbMembers'  = IF "members"  \in DOMAIN data THEN data.members  ELSE dbMembers
         /\ dbPayments' = IF "payments" \in DOMAIN data THEN data.payments ELSE dbPayments
         /\ dbMessages' = IF "messages" \in DOMAIN data THEN data.messages ELSE dbMessages
    /\ UNCHANGED <<tz, ret, nextId, storeVars, view>>

InitStore ==
    /\ tz \in TimeZones
    /\ ret = Idle
    /\ dbMembers = <<>>
    /\ dbPayments = <<>>
    /\ dbMessages = <<>>
    /\ nextId = 1
    /\ members = <<>>
    /\ payments = <<>>
    /\ messages = <<>>
    /\ settings = NullSettings
    /\ view = NoView

NextStore ==
    \/ ProviderCreateMember
    \/ ProviderUpdateMember
    \/ ProviderDeleteMember
    \/ ProviderCreatePayment
    \/ ProviderUpdatePayment
    \/ ProviderDeletePayment
    \/ ProviderCreateMessage
    \/ ProviderImportData

SpecStore == InitStore /\ [][NextStore]_vars

\* Persisted stores for deleteMember to work on: members 1..n, payments and
\* messages of members 1..MaxStore, and bulk messages.
StoredMembers ==
    { [i \in 1..n |-> Member(i, "monthly", DateOnly(2024, 1, 31), 600, TRUE)] :
        n \in 0..MaxStore }

StoredPayments ==
    { [i \in DOMAIN l |-> Payment(10 + i, l[i], 100, DateOnly(2024, 1, 31), "paid")] :
        l \in SeqsUpTo(1..MaxStore, MaxStore) }

StoredMessages ==
    { [i \in DOMAIN l |-> Message(20 + i, l[i], "announcement", IsoZ(2024, 2, 23, 0))] :
        l \in SeqsUpTo((1..MaxStore) \cup {NoMember}, MaxMessages) }

InitDelete ==
    /\ tz = 0
    /\ ret = Idle
    /\ dbMembers \in StoredMembers
    /\ dbPayments \in StoredPayments
    /\ dbMessages \in StoredMessages
    /\ nextId = 1
    /\ members = <<>>
    /\ payments = <<>>
    /\ messages = <<>>
    /\ settings = NullSettings
    /\ view = NoView

NextDelete == ProviderDeleteMember

SpecDelete == InitDelete /\ [][NextDelete]_vars

\* seq without the elements for which Gone holds, in the order of seq.
Remaining(seq, Gone(_)) ==
    LET Stays(x) == ~Gone(x)
    IN  SelectSeq(seq, Stays)

\* C17: when deleteMember(id) has completed, the persisted store holds no
\* member with that id and no payment or message whose member_id is that id,
\* and every other member, payment and message, a bulk message without
\* member_id included, is there as before.
C17_DeleteMemberRemovesOnlyTheirs ==
    [][ \A id \in Ids :
          DeleteMemberWithId(id) =>
              LET IsMember(m) == m.id = id
                  IsTheirs(x) == x.member_id # NoMember /\ x.member_id = id
              IN  /\ \A k \in DOMAIN dbMembers' : dbMembers'[k].id # id
                  /\ \A k \in DOMAIN dbPayments' : dbPayments'[k].member_id # id
                  /\ \A k \in DOMAIN dbMessages' : dbMessages'[k].member_id # id
                  /\ dbMembers' = Remaining(dbMembers, IsMember)
                  /\ dbPayments' = Remaining(dbPayments, IsTheirs)
                  /\ dbMessages' = Remaining(dbMessages, IsTheirs)
                  /\ \A k \in DOMAIN dbMessages :
                       dbMessages[k].member_id = NoMember
                          => \E j \in DOMAIN dbMessages' : dbMessages'[j] = dbMessages[k] ]_vars

\* Member 1 has been deleted: member 2, the payment of member 2 and the bulk
\* message are what the store holds.
C17_Witness ==
    /\ Len(dbMembers) = 1 /\ dbMembers[1].id = 2
    /\ Len(dbPayments) = 1 /\ dbPayments[1].member_id = 2
    /\ Len(dbMessages) = 1 /\ dbMessages[1].member_id = NoMember

\* C9: after any sequence of storage-layer operations, the member_id of every
\* persisted payment is the id of exactly one persisted member.
C9_PaymentsReferenceOneMember ==
    \A i \in DOMAIN dbPayments :
        Cardinality({ j \in DOMAIN dbMembers : dbMembers[j].id = dbPayments[i].member_id }) = 1

-----------------------------------------------------------------------------
(* The pages: the member table, the member profile, the message form and the *)
(* Payments page, over the members, payments and settings stores.            *)

\* The default of the reminderDays parameter of getPaymentStatus and isDue.
DefaultReminderDays == 3

\* settings?.reminder_window_days || 3
ReminderWindowOrDefault(s) ==
    IF s = NullSettings THEN 3
    ELSE IF s.reminder_window_days = 0 THEN 3
    ELSE s.reminder_window_days

\* payments.filter(p => p.member_id === id)
PaymentsOfMember(id) ==
    LET Owned(p) == p.member_id = id
    IN  SelectSeq(payments, Owned)

\* Date.prototype.toISOString
toISOString(t) ==
    Only({ IsoZ(c.y, c.m, c.d, t % 24) : c \in {CivilFromDays(t \div 24)} })

\* MemberTable.getStatusBadge: the badge of a row.
getStatusBadge(member, today) ==
    IF ~member.active THEN "Inactive"
    ELSE Only({ CASE status = "current"  -> "Current"
                  [] status = "due_soon" -> "Due Soon"
                  [] status = "overdue"  -> "Overdue"
                  [] OTHER               -> "Unknown" :
                  status \in { getPaymentStatus(member, PaymentsOfMember(member.id),
                                                DefaultReminderDays, today) } })

\* MemberProfile: the status of the member shown, over the member's payments
\* sorted latest first.
ProfilePaymentStatus(member, today) ==
    getPaymentStatus(member, SortByDateDesc(PaymentsOfMember(member.id)),
                     DefaultReminderDays, today)

\* The 'Due Members Only' recipients of the message form.
DueMembersOf(ms, today) ==
    LET Selected(m) ==
            IF ~m.active THEN FALSE
            ELSE isDue(m, PaymentsOfMember(m.id), ReminderWindowOrDefault(settings), today)
    IN  SelectSeq(ms, Selected)

\* The recipients of the 'Run Reminders' button.
RunRemindersRecipients(ms) == SelectSeq(ms, IsActive)

IdsOf(ms) == [i \in DOMAIN ms |-> ms[i].id]

\* messagesStore.createBulkReminders: one reminder per member id, created one
\* after the other; the messages it creates.
createBulkReminders(memberIds, today) ==
    [i \in DOMAIN memberIds |->
        Message(nextId + i - 1, memberIds[i], "reminder", toISOString(today))]

UiMembers ==
    { <<"monthly", DateOnly(2024, 1, 31), TRUE>>,
      <<"monthly", DateOnly(2024, 1, 31), FALSE>>,
      <<"yearly", DateOnly(2024, 2, 29), TRUE>> }

\* The member lists of the pages: the i-th member has id i.
UiMemberLists ==
    { [i \in DOMAIN l |-> Member(i, l[i][1], l[i][2], 600, l[i][3])] :
        l \in SeqsUpTo(UiMembers, MaxStore) }

UiPaymentLists ==
    { <<>>,
      <<Payment(3, 1, 100, IsoZ(2024, 2, 20, 0), "paid")>>,
      <<Payment(3, 1, 100, DateOnly(2024, 2, 20), "unpaid")>>,
      <<Payment(3, 2, 100, IsoZ(2024, 2, 20, 0), "paid")>> }

UiSettings == {NullSettings} \cup { [reminder_window_days |-> w] : w \in 0..MaxWindow }

\* Four days before 2024-02-29T00:00Z, noon of that day, and the day after.
UiTodays ==
    { DaysFromCivil(2024, 2, 25) * 24, DaysFromCivil(2024, 2, 29) * 24 + 12,
      DaysFromCivil(2024, 3, 1) * 24 }

RenderMemberTable ==
    /\ \E today \in UiTodays :
         view' = [screen |-> "members", today |-> today,
                  badges |-> [i \in DOMAIN members |-> getStatusBadge(members[i], today)]]
    /\ UNCHANGED <<tz, ret, dbVars, storeVars>>

RenderMemberProfile ==
    /\ \E i \in DOMAIN members, today \in UiTodays :
         view' = [screen |-> "profile", today |-> today, member |-> members[i],
                  paymentStatus |-> ProfilePaymentStatus(members[i], today)]
    /\ UNCHANGED <<tz, ret, dbVars, storeVars>>

\* The effect of the message form that recomputes the recipients, with
\* 'Due Members Only' chosen.
MessageFormSelectDueMembers ==
    /\ \E today \in UiTodays :
         view' = [screen |-> "messageForm", today |-> today,
                  selectedMembers |-> IdsOf(DueMembersOf(members, today))]
    /\ UNCHANGED <<tz, ret, dbVars, storeVars>>

\* The 'Run Reminders' button of the Payments page: the reminders are
\* persisted and appended to the messages store.
HandleRunReminders ==
    /\ \E today \in UiTodays :
         LET created == createBulkReminders(IdsOf(RunRemindersRecipients(members)), today)
         IN  /\ Len(dbMessages) + Len(created) <= MaxMessages
             /\ dbMessages' = dbMessages \o created
             /\ messages' = messages \o created
             /\ nextId' = nextId + Len(created)
    /\ view' = [screen |-> "payments"]
    /\ UNCHANGED <<tz, ret, dbMembers, dbPayments, members, payments, settings>>

\* onSubmit of the message form with recipient_type 'due_members'; the form
\* closes after the reminders are created.
MessageFormSubmitDueMembers ==
    /\ view.screen = "messageForm"
    /\ \E today \in UiTodays :
         LET created == createBulkReminders(IdsOf(DueMembersOf(members, today)), today)
         IN  /\ Len(dbMessages) + Len(created) <= MaxMessages
             /\ dbMessages' = dbMessages \o created
             /\ messages' = messages \o created
             /\ nextId' = nextId + Len(created)
    /\ view' = NoView
    /\ UNCHANGED <<tz, ret, dbMembers, dbPayments, members, payments, settings>>

\* The stores hold what the provider has persisted.
InitUi ==
    /\ tz \in TimeZones
    /\ ret = Idle
    /\ members \in UiMemberLists
    /\ payments \in { ps \in UiPaymentLists :
                        \A i \in DOMAIN ps : ps[i].member_id \in DOMAIN members }
    /\ dbMembers = members
    /\ dbPayments = payments
    /\ dbMessages = <<>>
    /\ messages = <<>>
    /\ nextId = 4
    /\ settings \in UiSettings
    /\ view = NoView

NextUi ==
    \/ RenderMemberTable
    \/ RenderMemberProfile
    \/ MessageFormSelectDueMembers
    \/ HandleRunReminders
    \/ MessageFormSubmitDueMembers

SpecUi == InitUi /\ [][NextUi]_vars

\* The member with the given id, as a set.
MembersWithId(id) == { members[i] : i \in { j \in DOMAIN members : members[j].id = id } }

\* C4: every reminder created by a reminder dispatch (the 'Run Reminders'
\* button, the 'Due Members Only' submission) is addressed to a member who is
\* active and due soon or overdue at dispatch time.
C4_RemindersOnlyToDueMembers ==
    \A k \in DOMAIN messages :
        messages[k].message_type = "reminder" =>
            \E m \in MembersWithId(messages[k].member_id) :
                /\ m.active
                /\ isDue(m, PaymentsOfMember(m.id), ReminderWindowOrDefault(settings),
                         parseISO(messages[k].sent_at))

\* C5: for every member and every configured reminder window, the member is
\* selected as a due member iff the status the member table and the member
\* profile show for them is due soon or overdue.
C5_DisplayedStatusAgreesWithSelection ==
    view.screen = "messageForm" =>
        \A i \in DOMAIN members :
            LET selected == \E k \in DOMAIN view.selectedMembers :
                               view.selectedMembers[k] = members[i].id
            IN  /\ selected <=> getStatusBadge(members[i], view.today) \in {"Due Soon", "Overdue"}
                /\ selected <=> ProfilePaymentStatus(members[i], view.today)
                                   \in {"due_soon", "overdue"}

-----------------------------------------------------------------------------
(* The call sites of the engine in the member table, the member profile and  *)
(* the message form.  A component renders again whenever a store it reads    *)
(* changes; the profile keeps the member and the member's payments in state  *)
(* of its own, which an effect refreshes after the render.                   *)

\* The filter of a member's payments as it would be if it let every payment
\* through.
AllPaymentsIn(ps, id) == ps

\* ps.filter(p => p.member_id === id)
PaymentsOfMemberIn(ps, id) ==
    LET Owned(p) == p.member_id = id
    IN  SelectSeq(ps, Owned)

\* useState<Member | null>(null)
NullMember == [null |-> TRUE]

\* The arguments of one call site: the member and the payments it passes.
EngineCall(site, member, ps) == [site |-> site, member |-> member, payments |-> ps]

\* MemberTable: the status filter, getStatusBadge and getNextDue of each row.
TableCalls(ms, ps) ==
    [i \in DOMAIN ms |-> EngineCall("table", ms[i], PaymentsOfMemberIn(ps, ms[i].id))]

\* MessageForm: isDue for each active member, and the preview.
FormCalls(ms, ps) ==
    Only({ [i \in DOMAIN active |->
              EngineCall("form", active[i], PaymentsOfMemberIn(ps, active[i].id))] :
             active \in {SelectSeq(ms, IsActive)} })

\* MemberProfile: nothing is computed while no member is held.
ProfileCalls(member, memberPayments) ==
    IF member = NullMember THEN <<>>
    ELSE <<EngineCall("profile", member, memberPayments)>>

\* The render of the component on screen over the stores ms, ps.  The
\* profile renders from its state and its effect is due afterwards.
Rerender(v, ms, ps) ==
    CASE v.screen = "members"     -> [v EXCEPT !.calls = TableCalls(ms, ps)]
      [] v.screen = "messageForm" -> [v EXCEPT !.calls = FormCalls(ms, ps)]
      [] v.screen = "profile"     ->
           [v EXCEPT !.calls = ProfileCalls(v.member, v.memberPayments),
                     !.effectPending = TRUE]
      [] OTHER                    -> v

OpenMemberTable ==
    /\ view' = [screen |-> "members", calls |-> TableCalls(members, payments)]
    /\ UNCHANGED <<tz, ret, dbVars, storeVars>>

OpenMessageForm ==
    /\ view' = [screen |-> "messageForm", calls |-> FormCalls(members, payments)]
    /\ UNCHANGED <<tz, ret, dbVars, storeVars>>

\* The route /members/:id is entered: the profile mounts without a member.
OpenMemberProfile ==
    /\ view.screen # "profile"
    /\ \E id \in 1..MaxStore :
         view' = [screen |-> "profile", id |-> id, member |-> NullMember,
                  memberPayments |-> <<>>, effectPending |-> TRUE, calls |-> <<>>]
    /\ UNCHANGED <<tz, ret, dbVars, storeVars>>

\* The route parameter changes while the profile is mounted: it renders with
\* the state it holds.
ProfileChangeMember ==
    /\ view.screen = "profile"
    /\ \E id \in 1..MaxStore :
         /\ id # view.id
         /\ view' = Rerender([view EXCEPT !.id = id], members, payments)
    /\ UNCHANGED <<tz, ret, dbVars, storeVars>>

\* The effect on [id, members, payments], and the render its updates cause.
ProfileEffect ==
    /\ view.screen = "profile"
    /\ view.effectPending
    /\ LET index == FindIndex(members, view.id)
           after == IF index = 0
                    THEN [view EXCEPT !.member = NullMember]
                    ELSE [view EXCEPT !.member = members[index],
                                      !.memberPayments =
                                          SortByDateDesc(PaymentsOfMemberIn(payments, view.id))]
       IN  view' = [after EXCEPT !.calls = ProfileCalls(after.member, after.memberPayments),
                                 !.effectPending = FALSE]
    /\ UNCHANGED <<tz, ret, dbVars, storeVars>>

\* paymentsStore.createPayment, from the payment form.
StoreCreatePayment ==
    /\ Len(payments) < MaxStore
    /\ \E i \in DOMAIN members, status \in {"paid", "unpaid"} :
         LET payment == Payment(nextId, members[i].id, 100, DateOnly(2024, 2, 25), status)
         IN  /\ dbPayments' = Append(dbPayments, payment)
             /\ payments' = Append(payments, payment)
             /\ view' = Rerender(view, members, payments')
    /\ nextId' = nextId + 1
    /\ UNCHANGED <<tz, ret, dbMembers, dbMessages, members, messages, settings>>

\* membersStore.deleteMember: the provider deletes the member with their
\* payments and messages, the store drops the member.
StoreDeleteMember ==
    /\ \E i \in DOMAIN members :
         LET id             == members[i].id
             KeepMember(m)  == m.id # id
             KeepRelated(x) == x.member_id # id
         IN  /\ dbMembers' = SelectSeq(dbMembers, KeepMember)
             /\ dbPayments' = SelectSeq(dbPayments, KeepRelated)
             /\ dbMessages' = SelectSeq(dbMessages, KeepRelated)
             /\ members' = SelectSeq(members, KeepMember)
             /\ view' = Rerender(view, members', payments)
    /\ UNCHANGED <<tz, ret, nextId, payments, messages, settings>>

NextCallSites ==
    \/ OpenMemberTable
    \/ OpenMessageForm
    \/ OpenMemberProfile
    \/ ProfileChangeMember
    \/ ProfileEffect
    \/ StoreCreatePayment
    \/ StoreDeleteMember

\* The stores as loaded; no call site reads the clock or the settings here.
InitCallSites ==
    /\ tz = 0
    /\ ret = Idle
    /\ members \in UiMemberLists
    /\ payments \in { ps \in UiPaymentLists :
                        \A i \in DOMAIN ps : ps[i].member_id \in DOMAIN members }
    /\ dbMembers = members
    /\ dbPayments = payments
    /\ dbMessages = <<>>
    /\ messages = <<>>
    /\ nextId = 4
    /\ settings = NullSettings
    /\ view = NoView

SpecCallSites == InitCallSites /\ [][NextCallSites]_vars

\* C14: every call site of the engine in the member table, the member profile
\* and the message form passes only payments whose member_id is the id of the
\* member it evaluates, also right after the member viewed or the payments
\* have changed.
C14_CallSitesPassOwnPayments ==
    "calls" \in DOMAIN view =>
        \A k \in DOMAIN view.calls :
            \A i \in DOMAIN view.calls[k].payments :
                view.calls[k].payments[i].member_id = view.calls[k].member.id

\* The profile was showing member 1 with a payment of theirs when the route
\* changed to member 2: it has rendered from the state it held, and its
\* effect is due.
C14_Witness ==
    /\ view.screen = "profile"
    /\ view.id = 2
    /\ view.effectPending
    /\ Len(view.calls) = 1
    /\ view.calls[1].member.id = 1
    /\ Len(view.calls[1].payments) >= 1
    /\ Len(PaymentsOfMemberIn(payments, 2)) >= 1

-----------------------------------------------------------------------------
(* Provider creates started together and awaited with Promise.all:           *)
(* importMembers of the members store and the 'All Active Members' send of   *)
(* the message form.  Each create reads its collection, appends to the copy  *)
(* it read and writes the copy back; the read and the write are separate     *)
(* steps, and the steps of the creates of one batch interleave.  `ret` holds *)
(* the batch in progress.                                                    *)

\* A create that has been started and waits for its read.
Task(data) == [pc |-> "reading", data |-> data, local |-> <<>>, created |-> NullMember]

\* The collection a batch writes to.
CollectionOf(batch) == IF batch.op = "importMembers" THEN dbMembers ELSE dbMessages

AllDone(batch) == \A i \in DOMAIN batch.tasks : batch.tasks[i].pc = "done"

\* The records the creates of a batch have returned.
CreatedBy(batch) == [i \in DOMAIN batch.tasks |-> batch.tasks[i].created]

\* membersStore.importMembers: one createMember per parsed row.
StartImportMembers ==
    /\ ret = Idle
    /\ \E newMembers \in SeqsUpTo(MemberData, MaxBatch) :
         /\ newMembers # <<>>
         /\ ret' = [op |-> "importMembers", before |-> Len(dbMembers),
                    tasks |-> [i \in DOMAIN newMembers |-> Task(newMembers[i])],
                    finished |-> FALSE, reported |-> Len(newMembers)]
    /\ UNCHANGED <<tz, dbVars, storeVars, view>>

\* MessageForm.onSubmit with recipient_type 'bulk': one createMessage per
\* active member.
StartBulkMessages ==
    /\ ret = Idle
    /\ LET activeMembers == SelectSeq(members, IsActive)
       IN  /\ activeMembers # <<>>
           /\ ret' = [op |-> "bulkMessages", before |-> Len(dbMessages),
                      tasks |-> [i \in DOMAIN activeMembers |->
                                   Task([member_id |-> activeMembers[i].id,
                                         message_type |-> "announcement",
                                         sent_at |-> IsoZ(2024, 2, 23, 0)])],
                      finished |-> FALSE, reported |-> Len(activeMembers)]
    /\ UNCHANGED <<tz, dbVars, storeVars, view>>

\* The read of a create completes: the record is made with a fresh id and
\* pushed onto the copy, and the write of the copy is issued.
CreateReads ==
    /\ ret.op \in {"importMembers", "bulkMessages"}
    /\ \E i \in DOMAIN ret.tasks :
         /\ ret.tasks[i].pc = "reading"
         /\ LET record == Merge(ret.tasks[i].data, [id |-> nextId])
            IN  ret' = [ret EXCEPT !.tasks[i] =
                          [pc |-> "writing", data |-> ret.tasks[i].data,
                           local |-> Append(CollectionOf(ret), record),
                           created |-> record]]
    /\ nextId' = nextId + 1
    /\ UNCHANGED <<tz, dbMembers, dbPayments, dbMessages, storeVars, view>>

\* The write of a create completes: the collection is the copy.  The messages
\* store appends each message as its create returns.
CreateWrites ==
    /\ ret.op \in {"importMembers", "bulkMessages"}
    /\ \E i \in DOMAIN ret.tasks :
         /\ ret.tasks[i].pc = "writing"
         /\ ret' = [ret EXCEPT !.tasks[i].pc = "done"]
         /\ IF ret.op = "importMembers"
            THEN /\ dbMembers' = ret.tasks[i].local
                 /\ UNCHANGED <<dbMessages, messages>>
            ELSE /\ dbMessages' = ret.tasks[i].local
                 /\ messages' = Append(messages, ret.tasks[i].created)
                 /\ UNCHANGED dbMembers
    /\ UNCHANGED <<tz, dbPayments, nextId, members, payments, settings, view>>

\* Promise.all has resolved: importMembers appends the created members to the
\* members store; the form reports the number of messages sent.
BatchCompletes ==
    /\ ret.op \in {"importMembers", "bulkMessages"}
    /\ ~ret.finished
    /\ AllDone(ret)
    /\ ret' = [ret EXCEPT !.finished = TRUE]
    /\ members' = IF ret.op = "importMembers" THEN members \o CreatedBy(ret) ELSE members
    /\ UNCHANGED <<tz, dbVars, payments, messages, settings, view>>

InitBatch ==
    /\ tz = 0
    /\ ret = Idle
    /\ members \in UiMemberLists
    /\ payments = <<>>
    /\ messages = <<>>
    /\ dbMembers = members
    /\ dbPayments = <<>>
    /\ dbMessages = <<>>
    /\ nextId = 4
    /\ settings = NullSettings
    /\ view = NoView

NextBatch ==
    \/ StartImportMembers
    \/ StartBulkMessages
    \/ CreateReads
    \/ CreateWrites
    \/ BatchCompletes

SpecBatch == InitBatch /\ [][NextBatch]_vars

\* C16: once all creates of a batch have completed, every record they created
\* is in the persisted collection: the collection has grown by the number of
\* items, which is the number the store has gained and the number reported.
C16_BatchPersistsEveryRecord ==
    (ret.op \in {"importMembers", "bulkMessages"} /\ ret.finished) =>
        /\ Len(CollectionOf(ret)) = ret.before + ret.reported
        /\ \A i \in DOMAIN ret.tasks :
             \E k \in DOMAIN CollectionOf(ret) : CollectionOf(ret)[k] = ret.tasks[i].created
        /\ ret.op = "importMembers" => Len(members) = Len(dbMembers)
        /\ ret.op = "bulkMessages" => Len(messages) = Len(dbMessages)

-----------------------------------------------------------------------------
(* The payment form.  The top bar keeps one form mounted for the quick       *)
(* action of the global search and passes it the member picked there; the    *)
(* Payments page keeps one mounted without a member, where the member is     *)
(* picked in the form.  A form holds the values of its fields, the values    *)
(* reset() returns to, and the member it last resolved, selectedMember.      *)

\* member_id: '' of an empty member field.
NoMemberId == 0

\* A form after its first render and effects, with no member passed in: the
\* second effect resets the fields and makes the values the defaults.
FreshForm ==
    [open |-> FALSE, preselectedMember |-> NullMember, member_id |-> NoMemberId,
     status |-> "paid", selectedMember |-> NullMember, defaultMemberId |-> NoMemberId]

\* The effects that run when preselectedMember has changed to member: the
\* first sets the member field and selectedMember, the second resets the
\* fields to the member's and makes them the defaults, the third is skipped.
PreselectEffects(form, member) ==
    [form EXCEPT !.preselectedMember = member, !.member_id = member.id,
                 !.status = "paid", !.selectedMember = member,
                 !.defaultMemberId = member.id]

\* The effect on watchedMemberId, after the member field was set to id.
WatchedMemberEffect(form, id) ==
    IF id # form.member_id /\ id # NoMemberId /\ form.preselectedMember = NullMember
           /\ FindIndex(members, id) # 0
    THEN [form EXCEPT !.member_id = id, !.selectedMember = members[FindIndex(members, id)]]
    ELSE [form EXCEPT !.member_id = id]

\* The tail of onSubmit: the dialog closes, reset() returns the fields to the
\* defaults, selectedMember is cleared.
AfterSubmit(form) ==
    [form EXCEPT !.open = FALSE, !.member_id = form.defaultMemberId,
                 !.status = "paid", !.selectedMember = NullMember]

\* The messages onSubmit creates after createPayment: a thank_you to
\* selectedMember if the status is paid and selectedMember is set.
ThanksOf(form) ==
    IF form.status = "paid" /\ form.selectedMember # NullMember
    THEN <<Message(nextId + 1, form.selectedMember.id, "thank_you", IsoZ(2024, 2, 23, 0))>>
    ELSE <<>>

Sites == {"topBar", "page"}

\* TopBar.handleQuickAction('payment', member): the member becomes the form's
\* preselectedMember and the dialog opens; the effects run only if the member
\* is not the one the form already has.
TopBarQuickAction ==
    /\ ~view.topBar.open
    /\ \E i \in DOMAIN members :
         view' = [view EXCEPT !.topBar =
                    [(IF members[i] = view.topBar.preselectedMember
                      THEN view.topBar
                      ELSE PreselectEffects(view.topBar, members[i]))
                     EXCEPT !.open = TRUE]]
    /\ UNCHANGED <<tz, ret, dbVars, storeVars>>

\* The Log Payment button of the Payments page.
PageLogPayment ==
    /\ ~view.page.open
    /\ view' = [view EXCEPT !.page.open = TRUE]
    /\ UNCHANGED <<tz, ret, dbVars, storeVars>>

\* The member select, shown when no member was passed in.
FormSelectMember ==
    /\ \E site \in Sites, i \in DOMAIN members :
         /\ view[site].open
         /\ view[site].preselectedMember = NullMember
         /\ view' = [view EXCEPT ![site] = WatchedMemberEffect(view[site], members[i].id)]
    /\ UNCHANGED <<tz, ret, dbVars, storeVars>>

\* The status select.
FormSelectStatus ==
    /\ \E site \in Sites, status \in {"paid", "unpaid", "overdue"} :
         /\ view[site].open
         /\ status # view[site].status
         /\ view' = [view EXCEPT ![site].status = status]
    /\ UNCHANGED <<tz, ret, dbVars, storeVars>>

\* The dialog is dismissed.
FormDismiss ==
    /\ \E site \in Sites :
         /\ view[site].open
         /\ view' = [view EXCEPT ![site].open = FALSE]
    /\ UNCHANGED <<tz, ret, dbVars, storeVars>>

\* onSubmit of a form without a payment to edit.  The schema rejects an empty
\* member field.
FormSubmitNew ==
    /\ Len(payments) < MaxStore
    /\ \E site \in Sites :
         LET form    == view[site]
             payment == Payment(nextId, form.member_id, 600, DateOnly(2024, 2, 25), form.status)
             thanks  == ThanksOf(form)
         IN  /\ form.open
             /\ form.member_id # NoMemberId
             /\ dbPayments' = Append(dbPayments, payment)
             /\ payments' = Append(payments, payment)
             /\ dbMessages' = dbMessages \o thanks
             /\ messages' = messages \o thanks
             /\ nextId' = nextId + 1 + Len(thanks)
             /\ view' = [view EXCEPT ![site] = AfterSubmit(form)]
    /\ UNCHANGED <<tz, ret, dbMembers, members, settings>>

\* onSubmit of a form mounted with a payment to edit: updatePayment with the
\* data of the form, here a changed status.
FormSubmitEdit ==
    /\ \E index \in DOMAIN payments, status \in {"paid", "unpaid", "overdue"} :
         LET updated == Merge(payments[index], [status |-> status])
         IN  /\ status # payments[index].status
             /\ dbPayments' = [dbPayments EXCEPT ![FindIndex(dbPayments, payments[index].id)] = updated]
             /\ payments' = [payments EXCEPT ![index] = updated]
    /\ UNCHANGED <<tz, ret, dbMembers, dbMessages, nextId, members, messages, settings, view>>

NextPaymentForm ==
    \/ TopBarQuickAction
    \/ PageLogPayment
    \/ FormSelectMember
    \/ FormSelectStatus
    \/ FormDismiss
    \/ FormSubmitNew
    \/ FormSubmitEdit

\* The forms read only the ids of the members.
FormMemberLists ==
    { [i \in 1..n |-> Member(i, "monthly", DateOnly(2024, 1, 31), 600, TRUE)] :
        n \in 0..MaxMembers }

InitPaymentForm ==
    /\ tz = 0
    /\ ret = Idle
    /\ members \in FormMemberLists
    /\ payments = <<>>
    /\ messages = <<>>
    /\ dbMembers = members
    /\ dbPayments = <<>>
    /\ dbMessages = <<>>
    /\ nextId = 4
    /\ settings = NullSettings
    /\ view = [screen |-> "paymentForm", topBar |-> FreshForm, page |-> FreshForm]

SpecPaymentForm == InitPaymentForm /\ [][NextPaymentForm]_vars

\* C18: a submission that logs a new payment appends exactly one thank_you
\* message, addressed to the payment's member, if the payment's status is
\* paid, and no message if it is unpaid or overdue; a submission that edits a
\* payment leaves the messages as they are.
C18_PaidPaymentIsThanked ==
    [][ /\ Len(payments') = Len(payments) + 1 =>
             LET payment == payments'[Len(payments')]
             IN  IF payment.status = "paid"
                 THEN /\ Len(messages') = Len(messages) + 1
                      /\ SubSeq(messages', 1, Len(messages)) = messages
                      /\ messages'[Len(messages')].message_type = "thank_you"
                      /\ messages'[Len(messages')].member_id = payment.member_id
                 ELSE messages' = messages
        /\ (Len(payments') = Len(payments) /\ payments' # payments) =>
             messages' = messages ]_vars

-----------------------------------------------------------------------------
(* The member form: Quick Add of the top bar and Add Member of the Members   *)
(* page open it empty, Edit of the member table opens it on a member.  The   *)
(* dialog is modal and its buttons are disabled while a submission runs.     *)

Emails == {"a@x.org", "b@x.org", "c@x.org"}

Phones == {"0911000001", "0911000002", "0911000003"}

\* The data of a valid member form, less the fields the form does not compare.
MemberFormData == { [email |-> e, phone_number |-> p] : e \in Emails, p \in Phones }

\* member?.id of a form without a member.
NoId == 0

\* checkDuplicate with the email ignored.
checkDuplicatePhoneOnly(ms, email, phone, id) ==
    \E i \in DOMAIN ms : ms[i].id # id /\ ms[i].phone_number = phone

\* members.some(m => m.id !== id && (m.email === email || m.phone_number === phone))
checkDuplicate(ms, email, phone, id) ==
    \E i \in DOMAIN ms :
        ms[i].id # id /\ (ms[i].email = email \/ ms[i].phone_number = phone)

ClosedMemberForm == [screen |-> "memberForm", open |-> FALSE]

OpenedMemberForm(member) ==
    [screen |-> "memberForm", open |-> TRUE, member |-> member,
     isSubmitting |-> FALSE, data |-> NullMember, toast |-> "none"]

\* Quick Add and Add Member.
OpenAddMember ==
    /\ ~view.open
    /\ view' = OpenedMemberForm(NullMember)
    /\ UNCHANGED <<tz, ret, dbVars, storeVars>>

\* Members.handleEditMember.
OpenEditMember ==
    /\ ~view.open
    /\ \E i \in DOMAIN members : view' = OpenedMemberForm(members[i])
    /\ UNCHANGED <<tz, ret, dbVars, storeVars>>

DismissMemberForm ==
    /\ view.open /\ ~view.isSubmitting
    /\ view' = ClosedMemberForm
    /\ UNCHANGED <<tz, ret, dbVars, storeVars>>

\* onSubmit up to its await: a duplicate ends the submission with a toast,
\* otherwise the create or the update is under way.
OnSubmit(data) ==
    /\ view.open /\ ~view.isSubmitting
    /\ view.member = NullMember => Len(members) < MaxStore
    /\ LET id == IF view.member = NullMember THEN NoId ELSE view.member.id
       IN  IF checkDuplicate(members, data.email, data.phone_number, id)
           THEN view' = [view EXCEPT !.toast = "Duplicate Member"]
           ELSE view' = [view EXCEPT !.isSubmitting = TRUE, !.data = data, !.toast = "none"]

MemberFormSubmit ==
    /\ \E data \in MemberFormData : OnSubmit(data)
    /\ UNCHANGED <<tz, ret, dbVars, storeVars>>

\* The create or the update returns: the provider has written the members,
\* the store holds the new or the changed member, the dialog closes.  An
\* update of a member that is not persisted throws and the form reports it.
MemberFormSaved ==
    /\ view.open /\ view.isSubmitting
    /\ IF view.member = NullMember
       THEN LET member == Merge(view.data, [id |-> nextId])
            IN  /\ dbMembers' = Append(dbMembers, member)
                /\ members' = Append(members, member)
                /\ nextId' = nextId + 1
                /\ view' = ClosedMemberForm
       ELSE LET index == FindIndex(dbMembers, view.member.id)
            IN  /\ nextId' = nextId
                /\ IF index = 0
                   THEN /\ UNCHANGED <<dbMembers, members>>
                        /\ view' = [view EXCEPT !.isSubmitting = FALSE, !.toast = "Error"]
                   ELSE LET updatedMember == Merge(dbMembers[index], view.data)
                            Updated(m)    == IF m.id = view.member.id THEN updatedMember ELSE m
                        IN  /\ dbMembers' = [dbMembers EXCEPT ![index] = updatedMember]
                            /\ members' = [i \in DOMAIN members |-> Updated(members[i])]
                            /\ view' = ClosedMemberForm
    /\ UNCHANGED <<tz, ret, dbPayments, dbMessages, payments, messages, settings>>

NextMemberForm ==
    \/ OpenAddMember
    \/ OpenEditMember
    \/ DismissMemberForm
    \/ MemberFormSubmit
    \/ MemberFormSaved

\* No two members of the sequence share an email or a phone number.
NoSharedContact(ms) ==
    \A i, j \in DOMAIN ms :
        i # j => ms[i].email # ms[j].email /\ ms[i].phone_number # ms[j].phone_number

\* The member lists the forms start from: the i-th member has id i, and the
\* emails and phone numbers are pairwise distinct.
ContactLists ==
    { ms \in UNION { [1..n -> MemberFormData] : n \in 0..MaxMembers } : NoSharedContact(ms) }

InitMemberForm ==
    /\ tz = 0
    /\ ret = Idle
    /\ \E contacts \in ContactLists :
         members = [i \in DOMAIN contacts |-> Merge(contacts[i], [id |-> i])]
    /\ payments = <<>>
    /\ messages = <<>>
    /\ dbMembers = members
    /\ dbPayments = <<>>
    /\ dbMessages = <<>>
    /\ nextId = 4
    /\ settings = NullSettings
    /\ view = ClosedMemberForm

SpecMemberForm == InitMemberForm /\ [][NextMemberForm]_vars

\* The data shares its email or its phone number with a member of the list
\* other than the one with the id.
SharesContact(ms, data, id) ==
    \E i \in DOMAIN ms :
        /\ ms[i].id # id
        /\ ms[i].email = data.email \/ ms[i].phone_number = data.phone_number

\* C19: from members with pairwise distinct emails and phone numbers, no
\* sequence of submissions of the member form leaves two members, in the store
\* or persisted, that share an email or a phone number; a submission whose
\* data shares one with another member changes no member and starts no create
\* or update.
C19_NoSharedEmailOrPhone ==
    /\ [](NoSharedContact(members) /\ NoSharedContact(dbMembers))
    /\ [][ \A data \in MemberFormData :
             (OnSubmit(data) /\ SharesContact(members, data,
                                   IF view.member = NullMember THEN NoId ELSE view.member.id))
                => /\ members' = members /\ dbMembers' = dbMembers
                   /\ ~view'.isSubmitting ]_vars

\* An edit that takes the email of another member has been refused, and a
\* member created through the form is in the list.
C19_Witness ==
    /\ view.open /\ view.toast = "Duplicate Member" /\ view.member # NullMember
    /\ \E i \in DOMAIN members : members[i].id >= nextId - 1 /\ nextId > 4

-----------------------------------------------------------------------------
(* The monthly report.  The report is computed from the members, the         *)
(* payments and the selected month, and again whenever one of them changes.  *)

\* The report reads payment dates with new Date(string), which takes a
\* date-only string as midnight UTC: west of Greenwich that instant is in the
\* evening of the day before.  UTC-5 is America/Bogota, without daylight
\* saving time.
ReportTimeZones == TimeZones \cup {-5}

\* selectedMonth "YYYY-MM", split and converted to numbers.
ReportMonths == { [year |-> 2024, month |-> 2], [year |-> 2024, month |-> 3] }

ReportDates == { DateOnly(2024, 2, 15), IsoZ(2024, 2, 29, 22), DateOnly(2024, 3, 1) }

ReportMemberLists ==
    { [i \in DOMAIN l |-> Member(i, "monthly", DateOnly(2024, 1, 31), 600, l[i])] :
        l \in SeqsUpTo(BOOLEAN, MaxMembers) }

ReportPayments ==
    { Payment(9, memberId, 100, date, status) :
        memberId \in 1..MaxMembers, date \in ReportDates, status \in {"paid", "unpaid"} }

\* The filter of paidMemberIds: paid, and getFullYear and getMonth of
\* new Date(payment_date) are those of the selected month.
PaidInMonth(p, year, month) ==
    Only({ p.status = "paid" /\ f.year = year /\ f.month = month - 1 :
             f \in {LocalFields(NewDate(p.payment_date))} })

\* paidMemberIds
PaidMemberIds(ps, year, month) ==
    { ps[j].member_id : j \in { k \in DOMAIN ps : PaidInMonth(ps[k], year, month) } }

\* reportData.unpaidMembers
UnpaidMembers(ms, ps, selectedMonth) ==
    LET paidMemberIds == PaidMemberIds(ps, selectedMonth.year, selectedMonth.month)
        NotPaid(member) == member.id \notin paidMemberIds
    IN  SelectSeq(SelectSeq(ms, IsActive), NotPaid)

Report(selectedMonth, ms, ps) ==
    [screen |-> "monthlyReport", selectedMonth |-> selectedMonth,
     unpaidMembers |-> UnpaidMembers(ms, ps, selectedMonth)]

\* The month select of the report.
ReportSelectMonth ==
    /\ \E selectedMonth \in ReportMonths :
         /\ selectedMonth # view.selectedMonth
         /\ view' = Report(selectedMonth, members, payments)
    /\ UNCHANGED <<tz, ret, dbVars, storeVars>>

\* paymentsStore.createPayment: the report is computed again.
ReportPaymentLogged ==
    /\ Len(payments) < MaxPayments
    /\ \E data \in ReportPayments :
         LET payment == Merge(data, [id |-> nextId])
         IN  /\ data.member_id \in DOMAIN members
             /\ dbPayments' = Append(dbPayments, payment)
             /\ payments' = Append(payments, payment)
             /\ view' = Report(view.selectedMonth, members, payments')
    /\ nextId' = nextId + 1
    /\ UNCHANGED <<tz, ret, dbMembers, dbMessages, members, messages, settings>>

\* MemberProfile.handleToggleActive: the report is computed again.
ReportMemberToggled ==
    /\ \E i \in DOMAIN members :
         LET updatedMember == Merge(members[i], [active |-> ~members[i].active])
         IN  /\ dbMembers' = [dbMembers EXCEPT ![i] = updatedMember]
             /\ members' = [members EXCEPT ![i] = updatedMember]
             /\ view' = Report(view.selectedMonth, members', payments)
    /\ UNCHANGED <<tz, ret, dbPayments, dbMessages, nextId, payments, messages, settings>>

NextReport ==
    \/ ReportSelectMonth
    \/ ReportPaymentLogged
    \/ ReportMemberToggled

InitReport ==
    /\ tz \in ReportTimeZones
    /\ ret = Idle
    /\ members \in ReportMemberLists
    /\ payments = <<>>
    /\ messages = <<>>
    /\ dbMembers = members
    /\ dbPayments = <<>>
    /\ dbMessages = <<>>
    /\ nextId = 4
    /\ settings = NullSettings
    /\ \E selectedMonth \in ReportMonths : view = Report(selectedMonth, members, payments)

SpecReport == InitReport /\ [][NextReport]_vars

\* The payment is dated in the month: the date its string names, or the local
\* date of the instant it names, is a day of the month.
DatedInMonth(p, selectedMonth) ==
    Only({ f.year = selectedMonth.year /\ f.month = selectedMonth.month - 1 :
             f \in {LocalFields(parseISO(p.payment_date))} })

\* C20: the list of members who have not paid in the selected month holds
\* exactly the active members without a paid payment dated in that month.
C20_UnpaidListIsActiveWithoutPaidInMonth ==
    /\ \A k \in DOMAIN view.unpaidMembers :
         \E i \in DOMAIN members : view.unpaidMembers[k] = members[i]
    /\ \A i \in DOMAIN members :
         (\E k \in DOMAIN view.unpaidMembers : view.unpaidMembers[k] = members[i])
           <=> /\ members[i].active
               /\ ~\E j \in DOMAIN payments :
                      /\ payments[j].member_id = members[i].id
                      /\ payments[j].status = "paid"
                      /\ DatedInMonth(payments[j], view.selectedMonth)

-----------------------------------------------------------------------------
(* Application initialisation.  DashboardLayout runs initializeApp when it   *)
(* mounts, which awaits seedData and then loads the stores.  seedData        *)
(* returns at once if a member is persisted; otherwise it creates members,   *)
(* payments of those members and messages, one create after the other.       *)
(* Between two runs the user may delete a member.                            *)

\* The members one seeding creates: 40 in the code.
MaxSeedMembers == 2

\* The mounts of DashboardLayout in one behaviour.
MaxMounts == 3

\* seedData without its check of existingMembers.
SeedGoesOnAlways(existingMembers) == TRUE

\* seedData goes on after its check of existingMembers.
SeedGoesOn(existingMembers) == ~(Len(existingMembers) > 0)

\* No run of seedData is under way.
SeedDataIsOver == IF ret.op = "seedData" THEN ret.pc \in {"returned", "done"} ELSE TRUE

\* DashboardLayout mounts and initializeApp calls seedData, which reads the
\* persisted members and returns or goes on.
InitializeApp ==
    /\ SeedDataIsOver
    /\ view.mounts < MaxMounts
    /\ view' = [view EXCEPT !.mounts = view.mounts + 1]
    /\ ret' = IF SeedGoesOn(dbMembers)
              THEN [op |-> "seedData", pc |-> "members", createdMembers |-> <<>>, index |-> 1]
              ELSE [op |-> "seedData", pc |-> "returned", createdMembers |-> <<>>, index |-> 1]
    /\ UNCHANGED <<tz, dbVars, storeVars>>

\* One turn of the loop over members: createMember.
SeedCreateMember ==
    /\ ret.op = "seedData" /\ ret.pc = "members"
    /\ \E active \in BOOLEAN :
         LET member == Member(nextId, "monthly", DateOnly(2024, 1, 31), 600, active)
             all    == Append(ret.createdMembers, member)
         IN  /\ dbMembers' = Append(dbMembers, member)
             /\ ret' = [ret EXCEPT !.createdMembers = all,
                                   !.pc = IF Len(all) = MaxSeedMembers THEN "payments" ELSE "members"]
    /\ nextId' = nextId + 1
    /\ UNCHANGED <<tz, dbPayments, dbMessages, storeVars, view>>

\* The payments of the next created member: one createPayment, or none when
\* the payment would lie too far in the future.
SeedCreatePayment ==
    /\ ret.op = "seedData" /\ ret.pc = "payments"
    /\ LET member == ret.createdMembers[ret.index]
       IN  \/ /\ dbPayments' = Append(dbPayments,
                       Payment(nextId, member.id, member.payment_amount,
                               IsoZ(2024, 1, 31, 0), "paid"))
              /\ nextId' = nextId + 1
           \/ UNCHANGED <<dbPayments, nextId>>
    /\ ret' = IF ret.index = Len(ret.createdMembers)
              THEN [ret EXCEPT !.pc = "messages", !.index = 1]
              ELSE [ret EXCEPT !.index = ret.index + 1]
    /\ UNCHANGED <<tz, dbMembers, dbMessages, storeVars, view>>

\* A message to one of the created members, then a bulk announcement.
SeedCreateMessage ==
    /\ ret.op = "seedData" /\ ret.pc = "messages"
    /\ \E i \in DOMAIN ret.createdMembers :
         dbMessages' = dbMessages \o
             << Message(nextId, ret.createdMembers[i].id, "reminder", IsoZ(2024, 2, 23, 0)),
                Message(nextId + 1, NoMember, "announcement", IsoZ(2024, 2, 23, 0)) >>
    /\ nextId' = nextId + 2
    /\ ret' = [ret EXCEPT !.pc = "done"]
    /\ UNCHANGED <<tz, dbMembers, dbPayments, storeVars, view>>

\* The user deletes a member while no seeding is under way.
SeededDeleteMember ==
    /\ SeedDataIsOver
    /\ \E i \in DOMAIN dbMembers : DeleteMemberWithId(dbMembers[i].id)
    /\ ret' = [op |-> "deleteMember"]
    /\ UNCHANGED <<tz, nextId, storeVars, view>>

NextSeed ==
    \/ InitializeApp
    \/ SeedCreateMember
    \/ SeedCreatePayment
    \/ SeedCreateMessage
    \/ SeededDeleteMember

\* What is persisted when the application is opened: nothing on the first
\* visit, else members.
InitSeed ==
    /\ tz = 0
    /\ ret = Idle
    /\ dbMembers \in StoredMembers
    /\ dbPayments = <<>>
    /\ dbMessages = <<>>
    /\ nextId = 30
    /\ members = <<>>
    /\ payments = <<>>
    /\ messages = <<>>
    /\ settings = NullSettings
    /\ view = [screen |-> "dashboard", mounts |-> 0]

SpecSeed == InitSeed /\ [][NextSeed]_vars

\* C21: a run of seedData that finds a member persisted writes nothing and is
\* over, and a completed seeding has persisted a member, so that the run of
\* the next initialisation leaves members, payments and messages as they are.
C21_SeedDataWritesNothingWhenSeeded ==
    /\ []((IF ret.op = "seedData" THEN ret.pc = "done" ELSE FALSE) => Len(dbMembers) > 0)
    /\ [][ (InitializeApp /\ Len(dbMembers) > 0) =>
              /\ UNCHANGED <<dbMembers, dbPayments, dbMessages>>
              /\ ret'.pc = "returned" ]_vars
    /\ [][ (IF ret.op = "seedData" THEN ret.pc = "returned" ELSE FALSE) =>
              (UNCHANGED <<dbMembers, dbPayments, dbMessages>> \/ ret'.op # "seedData") ]_vars

\* The second initialisation has returned at once: the seeded members, created
\* by the first, are persisted.
C21_Witness ==
    /\ ret.op = "seedData" /\ ret.pc = "returned"
    /\ view.mounts = 2
    /\ Len(dbMembers) = MaxSeedMembers
    /\ \A i \in DOMAIN dbMembers : dbMembers[i].id >= 30
    /\ Len(dbMessages) >= 2

-----------------------------------------------------------------------------
(* The members store over the provider.  Each action of the store awaits     *)
(* the provider and then sets the members of the store; here every action    *)
(* runs to completion before the next one starts.  ret records the action    *)
(* and whether a fetchMembers has completed.                                 *)

StoreCall(op, fetched) == [op |-> op, fetched |-> fetched]

\* The map of updateMember as it would be if it kept every member as it is.
MapKept(ms, id, updatedMember) == ms

\* members.map(m => m.id === id ? updatedMember : m)
MapUpdated(ms, id, updatedMember) ==
    [i \in DOMAIN ms |-> IF ms[i].id = id THEN updatedMember ELSE ms[i]]

\* fetchMembers: the store holds what getMembers returns.
MembersStoreFetch ==
    /\ members' = dbMembers
    /\ ret' = StoreCall("fetchMembers", TRUE)
    /\ UNCHANGED <<tz, dbVars, payments, messages, settings, view>>

\* createMember: the provider appends the member with a fresh id, the store
\* appends the member returned.
MembersStoreCreate ==
    /\ Len(dbMembers) < MaxStore /\ nextId <= MaxIds
    /\ \E memberData \in MemberData :
         LET member == Merge(memberData, [id |-> nextId])
         IN  /\ dbMembers' = Append(dbMembers, member)
             /\ members' = Append(members, member)
    /\ nextId' = nextId + 1
    /\ ret' = StoreCall("createMember", ret.fetched)
    /\ UNCHANGED <<tz, dbPayments, dbMessages, payments, messages, settings, view>>

\* updateMember: the provider merges the updates into the member and the
\* store puts the member returned in the place of the one with the id.  For
\* an unknown id the provider throws and the store is not set.
MembersStoreUpdate ==
    /\ \E id \in Ids, updates \in { [active |-> act] : act \in BOOLEAN }
                                    \cup { [payment_amount |-> 750] } :
         LET index == FindIndex(dbMembers, id)
         IN  IF index = 0
             THEN /\ UNCHANGED <<dbMembers, members>>
                  /\ ret' = StoreCall("updateMember throws", ret.fetched)
             ELSE LET updatedMember == Merge(dbMembers[index], updates)
                  IN  /\ dbMembers' = [dbMembers EXCEPT ![index] = updatedMember]
                      /\ members' = MapUpdated(members, id, updatedMember)
                      /\ ret' = StoreCall("updateMember", ret.fetched)
    /\ UNCHANGED <<tz, dbPayments, dbMessages, nextId, payments, messages, settings, view>>

\* deleteMember: the provider drops the member with their payments and
\* messages, the store drops the member.
MembersStoreDelete ==
    /\ \E id \in Ids :
         LET KeepMember(m) == m.id # id
         IN  /\ DeleteMemberWithId(id)
             /\ members' = SelectSeq(members, KeepMember)
    /\ ret' = StoreCall("deleteMember", ret.fetched)
    /\ UNCHANGED <<tz, nextId, payments, messages, settings, view>>

NextMembersStore ==
    \/ MembersStoreFetch
    \/ MembersStoreCreate
    \/ MembersStoreUpdate
    \/ MembersStoreDelete

\* The store is empty until the first fetch.
InitMembersStore ==
    /\ tz = 0
    /\ ret = StoreCall("idle", FALSE)
    /\ dbMembers \in StoredMembers
    /\ dbPayments = <<>>
    /\ dbMessages = <<>>
    /\ nextId = MaxStore + 1
    /\ members = <<>>
    /\ payments = <<>>
    /\ messages = <<>>
    /\ settings = NullSettings
    /\ view = NoView

SpecMembersStore == InitMembersStore /\ [][NextMembersStore]_vars

\* C22: once a fetchMembers has completed, whatever create, update, delete
\* and fetch followed, the members of the store are the persisted members:
\* the same members with the same field values in the same order.
C22_StoreMirrorsPersistedMembers ==
    ret.fetched =>
        /\ Len(members) = Len(dbMembers)
        /\ \A i \in DOMAIN members :
             /\ DOMAIN members[i] = DOMAIN dbMembers[i]
             /\ \A field \in DOMAIN members[i] : members[i][field] = dbMembers[i][field]

\* After a fetch, an update has changed the amount of one of two members, one
\* of them created through the store.
C22_Witness ==
    /\ ret.fetched /\ ret.op = "updateMember"
    /\ Len(members) = 2
    /\ \E i \in DOMAIN members : members[i].payment_amount = 750
    /\ \E i \in DOMAIN members : members[i].id > MaxStore

-----------------------------------------------------------------------------
(* The three stores in memory.  initializeApp loads them when the layout     *)
(* mounts; the Members page deletes a member through the members store; the  *)
(* Payments page shows a row for each payment of the payments store.         *)

\* The rows of the Payments page: for each payment the member found for it in
\* the members store, or none ('Unknown' is shown).
PaymentRows(ms, ps) ==
    [i \in DOMAIN ps |->
        [payment |-> ps[i],
         member  |-> IF FindIndex(ms, ps[i].member_id) # 0
                     THEN ms[FindIndex(ms, ps[i].member_id)]
                     ELSE NullMember]]

\* Members.handleDeleteMember: deleteMember of the members store.
MembersPageDeleteMember ==
    /\ \E i \in DOMAIN members :
         LET id            == members[i].id
             KeepMember(m) == m.id # id
         IN  /\ DeleteMemberWithId(id)
             /\ members' = SelectSeq(members, KeepMember)
             /\ ret' = [op |-> "deleteMember", id |-> id]
    /\ view' = [screen |-> "members"]
    /\ UNCHANGED <<tz, nextId, payments, messages, settings>>

\* The Payments page is opened and renders the stores.
OpenPaymentsPage ==
    /\ view.screen # "payments"
    /\ view' = [screen |-> "payments", rows |-> PaymentRows(members, payments)]
    /\ ret' = Idle
    /\ UNCHANGED <<tz, dbVars, storeVars>>

\* The layout mounts again (the page is loaded anew) and initializeApp
\* fetches the members, the payments and the messages.
ReloadStores ==
    /\ members' = dbMembers
    /\ payments' = dbPayments
    /\ messages' = dbMessages
    /\ ret' = Idle
    /\ view' = [screen |-> "dashboard"]
    /\ UNCHANGED <<tz, dbVars, settings>>

NextStores ==
    \/ MembersPageDeleteMember
    \/ OpenPaymentsPage
    \/ ReloadStores

\* Every payment and every message to a member is of a persisted member.
OfStoredMembers(ms, xs) ==
    \A i \in DOMAIN xs : xs[i].member_id = NoMember \/ xs[i].member_id \in DOMAIN ms

\* The stores as initializeApp has loaded them.
InitStores ==
    /\ tz = 0
    /\ ret = Idle
    /\ dbMembers \in StoredMembers
    /\ dbPayments \in { ps \in StoredPayments : OfStoredMembers(dbMembers, ps) }
    /\ dbMessages \in { xs \in StoredMessages : OfStoredMembers(dbMembers, xs) }
    /\ nextId = 30
    /\ members = dbMembers
    /\ payments = dbPayments
    /\ messages = dbMessages
    /\ settings = NullSettings
    /\ view = [screen |-> "dashboard"]

SpecStores == InitStores /\ [][NextStores]_vars

\* C23: when deleteMember(id) of the members store has completed, the payments
\* store holds no payment and the messages store no message of that member,
\* and the Payments page shows no row of a payment whose member is gone.
C23_NoRecordOfDeletedMemberInStores ==
    /\ ret.op = "deleteMember" =>
         /\ \A i \in DOMAIN payments : payments[i].member_id # ret.id
         /\ \A i \in DOMAIN messages : messages[i].member_id # ret.id
    /\ view.screen = "payments" =>
         \A i \in DOMAIN view.rows : view.rows[i].member # NullMember

-----------------------------------------------------------------------------
(* Authentication.  The auth store holds the user; the provider keeps the    *)
(* current user under one key of the key-value store in IndexedDB, whose     *)
(* requests are carried out, and answered, in the order they were made.      *)
(* ret holds the user of the store, the stored current user, the requests    *)
(* under way, each with the call of the auth store awaiting it, isLoading,   *)
(* whether a logout has completed with no login succeeding since, and        *)
(* whether a checkAuth has been answered since that logout completed.        *)

\* The requests under way at a time.
MaxRequests == 3

\* user: null
NullUser == [null |-> TRUE]

\* The users login knows, without their passwords.
Users == { [id |-> 1, role |-> "admin"], [id |-> 2, role |-> "staff"] }

\* The request answered next.
NextAnswered(requests) == Head(requests)

\* logout as it would be if it left the user of the store alone.
UserKeptByLogout(user) == user

\* set({ user: null }) of logout.
UserAfterLogout(user) == NullUser

\* ProtectedRoute: the login form unless there is a user.
ProtectedRoute(user) == IF user = NullUser THEN [screen |-> "login"] ELSE [screen |-> "pages"]

\* ProtectedRoute mounts and its effect calls checkAuth, which asks for the
\* current user.
StartCheckAuth ==
    /\ Len(ret.requests) < MaxRequests
    /\ ret' = [ret EXCEPT !.isLoading = TRUE,
                          !.requests = Append(ret.requests, [call |-> "checkAuth"])]
    /\ UNCHANGED <<tz, dbVars, storeVars, view>>

\* AppSidebar.handleLogout, from the protected pages: logout asks for the
\* current user to be deleted.
StartLogout ==
    /\ view.screen = "pages"
    /\ Len(ret.requests) < MaxRequests
    /\ ret' = [ret EXCEPT !.requests = Append(ret.requests, [call |-> "logout"])]
    /\ UNCHANGED <<tz, dbVars, storeVars, view>>

\* login with the email and password of a user: the provider asks for the
\* user to be stored as the current user.
StartLogin ==
    /\ Len(ret.requests) < MaxRequests
    /\ \E user \in Users :
         ret' = [ret EXCEPT !.isLoading = TRUE,
                            !.requests = Append(ret.requests, [call |-> "login", user |-> user])]
    /\ UNCHANGED <<tz, dbVars, storeVars, view>>

\* login with an email or a password no user has: the provider returns null
\* without a request; the store keeps its user and is no longer loading.
LoginRefused ==
    /\ ret' = [ret EXCEPT !.isLoading = FALSE]
    /\ UNCHANGED <<tz, dbVars, storeVars, view>>

\* The oldest request is answered and the call awaiting it goes on: checkAuth
\* sets the user it read, logout sets null, login sets the user it stored.
\* ProtectedRoute renders the user of the store.
RequestAnswered ==
    /\ ret.requests # <<>>
    /\ LET request == NextAnswered(ret.requests)
           after   ==
               IF request.call = "checkAuth"
               THEN [ret EXCEPT !.user = ret.currentUser,
                                !.isLoading = FALSE,
                                !.checkedSince = ret.loggedOut]
               ELSE IF request.call = "logout"
               THEN [ret EXCEPT !.currentUser = NullUser,
                                !.user = UserAfterLogout(ret.user),
                                !.loggedOut = TRUE,
                                !.checkedSince = FALSE]
               ELSE [ret EXCEPT !.currentUser = request.user,
                                !.user = request.user,
                                !.isLoading = FALSE,
                                !.loggedOut = FALSE,
                                !.checkedSince = FALSE]
       IN  /\ ret' = [after EXCEPT !.requests = Tail(ret.requests)]
           /\ view' = ProtectedRoute(after.user)
    /\ UNCHANGED <<tz, dbVars, storeVars>>

NextAuth ==
    \/ StartCheckAuth
    \/ StartLogout
    \/ StartLogin
    \/ LoginRefused
    \/ RequestAnswered

\* The application is loaded: the store has the user the persist middleware
\* kept, the key-value store has the current user or none.
InitAuth ==
    /\ tz = 0
    /\ \E user \in Users \cup {NullUser}, currentUser \in Users \cup {NullUser} :
         /\ ret = [op |-> "auth", user |-> user, currentUser |-> currentUser,
                   requests |-> <<>>, isLoading |-> FALSE,
                   loggedOut |-> FALSE, checkedSince |-> FALSE]
         /\ view = ProtectedRoute(user)
    /\ dbMembers = <<>>
    /\ dbPayments = <<>>
    /\ dbMessages = <<>>
    /\ nextId = 1
    /\ members = <<>>
    /\ payments = <<>>
    /\ messages = <<>>
    /\ settings = NullSettings

SpecAuth == InitAuth /\ [][NextAuth]_vars

\* C24: from the completion of a logout until a login succeeds the user of
\* the auth store is null, whichever checkAuth calls were under way when the
\* logout was made; and the protected pages are rendered exactly while the
\* user is not null.
C24_UserStaysNullAfterLogout ==
    /\ ret.loggedOut => ret.user = NullUser
    /\ view.screen = "pages" <=> ret.user # NullUser

\* A logout has completed and a checkAuth that was under way has been
\* answered after it: the user is null and the login form is rendered.
C24_Witness ==
    /\ ret.loggedOut /\ ret.checkedSince
    /\ ret.user = NullUser
    /\ view.screen = "login"

-----------------------------------------------------------------------------
(* Properties of the engine, checked under SpecEngine *)

IsLeapYear(y) == (y % 4 = 0 /\ y % 100 # 0) \/ y % 400 = 0

\* Days of month m (1..12) of year y.
DaysInMonthOf(y, m) ==
    IF m = 2 THEN (IF IsLeapYear(y) THEN 29 ELSE 28)
    ELSE IF m \in {4, 6, 9, 11} THEN 30 ELSE 31

Min(a, b) == IF a <= b THEN a ELSE b

\* The date n calendar months after t: the same day of the month and time of
\* day, or the last day of the month where the month is shorter.
CalendarPlusMonths(t, n) ==
    Only({ LET total == f.year * 12 + f.month + n
               y     == total \div 12
               m     == (total % 12) + 1
           IN  DaysFromCivil(y, m, Min(f.date, DaysInMonthOf(y, m))) * 24 + f.hours - tz :
             f \in {LocalFields(t)} })

IntervalMonths(frequency) ==
    CASE frequency = "monthly"      -> 1
      [] frequency = "three_months" -> 3
      [] frequency = "six_months"   -> 6
      [] frequency = "yearly"       -> 12
      [] OTHER                      -> 1

\* C1: getNextDueDate returns anchor + interval: the anchor is the last paid
\* date when one is given and the member's start date otherwise, the interval
\* 1, 3, 6 or 12 months by frequency and 1 month for any other frequency; a
\* monthly member without payments is due one month after the start date.
C1_NextDueIsAnchorPlusInterval ==
    ret.op = "getNextDueDate" =>
        LET anchor == IF ret.lastPaymentDate # undefined
                      THEN parseISO(ret.lastPaymentDate)
                      ELSE parseISO(ret.member.payment_start_date)
        IN  /\ ret.value = CalendarPlusMonths(anchor, IntervalMonths(ret.member.payment_frequency))
            /\ (ret.member.payment_frequency = "monthly" /\ ret.lastPaymentDate = undefined)
                 => ret.value = CalendarPlusMonths(parseISO(ret.member.payment_start_date), 1)

\* A monthly member without payments who started on 2023-11-30 is due on
\* 2023-12-30.
C1_Witness ==
    /\ ret.op = "getNextDueDate"
    /\ ret.member.payment_frequency = "monthly"
    /\ ret.member.payment_start_date = DateOnly(2023, 11, 30)
    /\ ret.lastPaymentDate = undefined
    /\ ret.value = MakeDate(2023, 11, 30, 0)

\* The number of full days in a difference of `hours` hours, towards zero.
FullDays(hours) == IF hours >= 0 THEN hours \div 24 ELSE -((-hours) \div 24)

\* C2: getPaymentStatus returns exactly one of three states by the days d from
\* today to the next due date: overdue when d < 0, due soon when 0 <= d <= w,
\* current when d > w; with w = 3, five days before the due date is current,
\* one day before is due soon and one day after is overdue.
C2_StatusByDays ==
    ret.op = "getPaymentStatus" =>
        LET due == getNextDueDate(ret.member, getLastPaymentDate(ret.payments))
            d   == FullDays(due - ret.today)
            w   == ret.reminderDays
        IN  /\ ret.value \in {"overdue", "due_soon", "current"}
            /\ ret.value = "overdue"  <=> d < 0
            /\ ret.value = "due_soon" <=> (0 <= d /\ d <= w)
            /\ ret.value = "current"  <=> d > w
            /\ (w = 3 /\ ret.today = due - 5 * 24) => ret.value = "current"
            /\ (w = 3 /\ ret.today = due - 24) => ret.value = "due_soon"
            /\ (w = 3 /\ ret.today = due + 24) => ret.value = "overdue"

\* With the default window, the day before the due date is due soon.
C2_Witness ==
    /\ ret.op = "getPaymentStatus"
    /\ ret.reminderDays = 3
    /\ ret.today = getNextDueDate(ret.member, getLastPaymentDate(ret.payments)) - 24
    /\ ret.value = "due_soon"

\* The orders of a sequence.
Orders(seq) ==
    { [i \in 1..Len(seq) |-> seq[f[i]]] :
        f \in { g \in [1..Len(seq) -> 1..Len(seq)] :
                  \A i, j \in 1..Len(seq) : g[i] = g[j] => i = j } }

\* The date the engine reads from a result of getLastPaymentDate: the anchor
\* getNextDueDate takes from it.
ReadDate(result) == IF result = undefined THEN <<>> ELSE <<parseISO(result)>>

\* C3: getLastPaymentDate returns none when no payment is paid, and otherwise
\* the date of a paid payment whose date is the greatest among the paid ones;
\* unpaid and overdue payments and the order of the collection do not
\* influence the result.
C3_LastPaidIsGreatestPaid ==
    ret.op = "getLastPaymentDate" =>
        LET paid == SelectSeq(ret.payments, IsPaid)
        IN  /\ paid = <<>> => ret.value = undefined
            /\ paid # <<>> =>
                 /\ \E i \in 1..Len(paid) : paid[i].payment_date = ret.value
                 /\ \A i \in 1..Len(paid) :
                      parseISO(paid[i].payment_date) <= parseISO(ret.value)
            /\ getLastPaymentDate(paid) = ret.value
            /\ \A qs \in Orders(ret.payments) :
                 ReadDate(getLastPaymentDate(qs)) = ReadDate(ret.value)

\* The monthly share of a member, in twelfths of a currency unit.
MonthlyShare(m) ==
    IF ~m.active THEN 0
    ELSE CASE m.payment_frequency = "monthly"      -> 12 * m.payment_amount
           [] m.payment_frequency = "three_months" -> 4 * m.payment_amount
           [] m.payment_frequency = "six_months"   -> 2 * m.payment_amount
           [] m.payment_frequency = "yearly"       -> m.payment_amount
           [] OTHER                                -> 0

\* The sum of G(seq[i]) over the indices i in I.
RECURSIVE SumOver(_, _, _)
SumOver(G(_), seq, I) ==
    IF I = {} THEN 0
    ELSE LET i == CHOOSE k \in I : TRUE
         IN  G(seq[i]) + SumOver(G, seq, I \ {i})

\* seq without its i-th element.
Without(seq, i) == SubSeq(seq, 1, i - 1) \o SubSeq(seq, i + 1, Len(seq))

\* C6: getMonthlyExpectedIncome is the sum over the active members of amount,
\* amount/3, amount/6 or amount/12 by frequency and 0 for any other frequency;
\* inactive members contribute 0: (600, yearly) and (1200, monthly) give 1250,
\* and an inactive member more or less leaves the total unchanged.
C6_ExpectedIncomeIsSumOfShares ==
    ret.op = "getMonthlyExpectedIncome" =>
        /\ ret.value = SumOver(MonthlyShare, ret.members, DOMAIN ret.members)
        /\ ( /\ Len(ret.members) = 2
             /\ \A i \in 1..2 : ret.members[i].active
             /\ ret.members[1].payment_amount = 600
             /\ ret.members[1].payment_frequency = "yearly"
             /\ ret.members[2].payment_amount = 1200
             /\ ret.members[2].payment_frequency = "monthly" )
             => ret.value = 1250 * 12
        /\ \A i \in DOMAIN ret.members :
             ~ret.members[i].active
                => getMonthlyExpectedIncome(Without(ret.members, i)) = ret.value

\* The example of the specification, with an inactive member in between.
C6_Witness ==
    /\ ret.op = "getMonthlyExpectedIncome"
    /\ Len(ret.members) = 2
    /\ ret.members[1].active /\ ret.members[1].payment_amount = 600
    /\ ret.members[1].payment_frequency = "yearly"
    /\ ret.members[2].active /\ ret.members[2].payment_amount = 1200
    /\ ret.members[2].payment_frequency = "monthly"
    /\ ret.value = 1250 * 12

\* The Date whose month a call of getMonthlyCollected sums.
TargetMonth(call) == IF call.month # <<>> THEN call.month[1] ELSE call.today

\* The payment is dated in the calendar month of `target`.
InMonthOf(p, target) ==
    Only({ f.year = g.year /\ f.month = g.month :
             f \in {LocalFields(parseISO(p.payment_date))}, g \in {LocalFields(target)} })

Amount(p) == p.amount

\* C7: getMonthlyCollected counts no unpaid or overdue payment and no payment
\* dated in another month than the target month: its result is the sum of the
\* amounts of a subset of the paid payments dated in the target month.
C7_CollectedOnlyPaidInMonth ==
    ret.op = "getMonthlyCollected" =>
        LET eligible == { i \in DOMAIN ret.payments :
                            /\ ret.payments[i].status = "paid"
                            /\ InMonthOf(ret.payments[i], TargetMonth(ret)) }
        IN  \E counted \in SUBSET eligible :
               ret.value = SumOver(Amount, ret.payments, counted)

\* A paid payment of mid-February is counted for February next to a paid
\* payment of the last day of January, which is not.
C7_Witness ==
    /\ ret.op = "getMonthlyCollected"
    /\ ret.month = <<DaysFromCivil(2024, 2, 10) * 24>>
    /\ Len(ret.payments) = 2
    /\ ret.payments[1] = Payment(1, 1, 100, IsoZ(2024, 1, 31, 12), "paid")
    /\ ret.payments[2] = Payment(1, 1, 250, IsoZ(2024, 2, 15, 12), "paid")
    /\ tz = 0
    /\ ret.value = 250

\* C8: getMonthlyCollected counts a paid payment iff it is dated inside the
\* target month and not exactly at midnight of the month's first or last day.
C8_CollectedAllInsideMonth ==
    ret.op = "getMonthlyCollected" =>
        LET f          == LocalFields(TargetMonth(ret))
            firstDay   == MakeDate(f.year, f.month, 1, 0)
            lastDay    == MakeDate(f.year, f.month + 1, 0, 0)
            inside     == { i \in DOMAIN ret.payments :
                              /\ ret.payments[i].status = "paid"
                              /\ InMonthOf(ret.payments[i], TargetMonth(ret))
                              /\ parseISO(ret.payments[i].payment_date) # firstDay
                              /\ parseISO(ret.payments[i].payment_date) # lastDay }
        IN  ret.value = SumOver(Amount, ret.payments, inside)

-----------------------------------------------------------------------------
(* Further properties of getNextDueDate *)

\* The anchor of a recorded call of getNextDueDate.
AnchorOfCall(call) ==
    IF call.lastPaymentDate # undefined
    THEN parseISO(call.lastPaymentDate)
    ELSE parseISO(call.member.payment_start_date)

\* C11 as stated: for a yearly member and every anchor, 29 February included,
\* the next due date has the month and the day of the month of the anchor and
\* a year one greater.
C11_YearlyKeepsMonthAndDay ==
    (ret.op = "getNextDueDate" /\ ret.member.payment_frequency = "yearly") =>
        Only({ /\ v.year = a.year + 1
               /\ v.month = a.month
               /\ v.date = a.date :
                 a \in {LocalFields(AnchorOfCall(ret))}, v \in {LocalFields(ret.value)} })

\* C11, amended: for a yearly member the next due date has the month of the
\* anchor and a year one greater; it has the day of the month of the anchor,
\* except that an anchor of 29 February gives 28 February.
C11_YearlyKeepsMonthAndDayButLeapDay ==
    (ret.op = "getNextDueDate" /\ ret.member.payment_frequency = "yearly") =>
        Only({ /\ v.year = a.year + 1
               /\ v.month = a.month
               /\ v.hours = a.hours
               /\ v.date = (IF a.month = 1 /\ a.date = 29 THEN 28 ELSE a.date) :
                 a \in {LocalFields(AnchorOfCall(ret))}, v \in {LocalFields(ret.value)} })

\* A yearly member who started on 2024-02-29 is due on 2025-02-28.
C11_Witness ==
    /\ ret.op = "getNextDueDate"
    /\ ret.member.payment_frequency = "yearly"
    /\ ret.member.payment_start_date = DateOnly(2024, 2, 29)
    /\ ret.lastPaymentDate = undefined
    /\ ret.value = MakeDate(2025, 1, 28, 0)

\* C15: when the target month lacks the day of the month of the anchor,
\* getNextDueDate returns the last day of the target month and never a date
\* of the month after, for the monthly, the quarterly and the semi-annual
\* interval alike; 31 January, 30 November and 31 August of the examples all
\* lead to the last day of February.
C15_MonthEndIsClamped ==
    (ret.op = "getNextDueDate"
       /\ ret.member.payment_frequency \in {"monthly", "three_months", "six_months"}) =>
        Only({ LET total == a.year * 12 + a.month + IntervalMonths(ret.member.payment_frequency)
                   y     == total \div 12
                   m     == total % 12
               IN  /\ v.year = y /\ v.month = m
                   /\ a.date > DaysInMonthOf(y, m + 1) => v.date = DaysInMonthOf(y, m + 1)
                   /\ a.date <= DaysInMonthOf(y, m + 1) => v.date = a.date :
                 a \in {LocalFields(AnchorOfCall(ret))}, v \in {LocalFields(ret.value)} })

\* A quarterly member who started on 2023-11-30 is due on 2024-02-29.
C15_Witness ==
    /\ ret.op = "getNextDueDate"
    /\ ret.member.payment_frequency = "three_months"
    /\ ret.member.payment_start_date = DateOnly(2023, 11, 30)
    /\ ret.lastPaymentDate = undefined
    /\ ret.value = MakeDate(2024, 1, 29, 0)

-----------------------------------------------------------------------------
(* getPaymentStatus over time, checked under SpecClock *)

StatusRank(status) ==
    CASE status = "current"  -> 1
      [] status = "due_soon" -> 2
      [] status = "overdue"  -> 3

\* The full days from the clock of a recorded call to the next due date.
DaysToDue(call) ==
    FullDays(getNextDueDate(call.member, getLastPaymentDate(call.payments)) - call.today)

\* C13: with the member, the payments and the reminder window fixed, as the
\* clock advances the status only moves forward in the order current, due
\* soon, overdue; it changes only when the number of full days to the next due
\* date changes; and it is eventually overdue.
C13_StatusOnlyMovesForward ==
    /\ [][ /\ ret'.member = ret.member
           /\ ret'.payments = ret.payments
           /\ ret'.reminderDays = ret.reminderDays
           /\ ret'.today > ret.today
           /\ StatusRank(ret'.value) >= StatusRank(ret.value)
           /\ ret'.value # ret.value => DaysToDue(ret') # DaysToDue(ret) ]_vars
    /\ <>[](ret.value = "overdue")

\* A call returned overdue after the call before it had returned due soon.
C13_Witness ==
    /\ ret.op = "getPaymentStatus"
    /\ "previous" \in DOMAIN ret
    /\ ret.previous = "due_soon"
    /\ ret.value = "overdue"

====
